---- MODULE Spec2Model ----
(***************************************************************************)
(* A model of the coala_client turn loop: the stream aggregator of         *)
(* LLMClient._stream_response, the turn engine of                          *)
(* ChatSession.process_message, and the MCPManager connection registry.    *)
(* Python str values are TLA+ strings (None and "" are both falsy and are  *)
(* both written "", except in a tool descriptor and in a response that is  *)
(* not streamed, where None is kept apart); Python dicts are sequences of  *)
(* entries in insertion order; a key a dict does not hold is a has_* flag  *)
(* that is FALSE.                                                          *)
(***************************************************************************)
EXTENDS Integers, Sequences, FiniteSets, TLC

VARIABLES
    messages,         \* LLMClient.messages, the conversation
    chunks,           \* the fragments consumed so far by the running _stream_response
    full_content,     \* _stream_response: full_content
    tool_calls_data,  \* _stream_response: tool_calls_data, entries in insertion order
    yielded,          \* the text chunks _stream_response has yielded to its caller
    spc,              \* position of _stream_response: "idle", "loop", "done", "failed";
                      \* "got": _get_response has returned
    response,         \* the response object the provider gave, where it came whole
    chat,             \* a second LLMClient run through chat(): the script of model
                      \* responses and tool results it was given, and what it left
    connections,      \* MCPManager.connections, entries in insertion order
    tool_to_server,   \* MCPManager._tool_to_server, entries in insertion order
    exit_stack,       \* the contexts entered on MCPManager._exit_stack, oldest first
    mpc,              \* the manager's scope: "new", "open", "exiting", "closed"
    closed,           \* __aexit__: the close attempts made so far, in order
    servers,          \* config.get_mcp_servers(): the configured server names, in order
    ca,               \* connect_all_servers: [pc, i, ret]
    attempts,         \* every connect_server call so far: [name, outcome, session]
    last_call,        \* the latest MCPManager.call_tool: [called, name, reply, result]
    last_tools,       \* the latest get_openai_tools: [ret, fresh, again]
    session,          \* ChatSession: [exists, mcp_manager, sandbox_enabled]
    pc,               \* process_message: "idle", "request", "check", "executing",
                      \*   "done" (line 178), "aborted" (line 181)
    tools,            \* process_message: the tools list passed to every request
    tool_calls,       \* process_message: the batch being executed (line 160)
    ti,               \* process_message: the index in tool_calls of the next request
    requests,         \* the number of model requests issued so far
    sent,             \* the latest model request: its messages and its tools
    last_exec         \* the latest execute_tool: how it was routed and how it ended

svars == <<chunks, full_content, tool_calls_data, yielded, spc, response, chat>>

mvars == <<connections, tool_to_server, exit_stack, mpc, closed, servers, ca,
           attempts, last_call, last_tools>>

tvars == <<session, pc, tools, tool_calls, ti, requests, sent, last_exec>>

vars == <<messages, svars, mvars, tvars>>

----------------------------------------------------------------------------
(* Bounds *)

MaxChunks == 3

MaxConnects == 1

MaxCloseFailures == 1

MaxRequests == 3

\* the parts of one tool result
MaxParts == 3

\* the skills loaded into one conversation
MaxSkillLoads == 1

\* the tool calls of one response that is not streamed
MaxCalls == 2

----------------------------------------------------------------------------
(* Generic helpers *)

Range(s) == {s[i] : i \in 1..Len(s)}

Last(s) == s[Len(s)]

Min(S) == CHOOSE m \in S : \A n \in S : m <= n

RECURSIVE SortedSeq(_)
SortedSeq(S) ==
    IF S = {} THEN <<>> ELSE <<Min(S)>> \o SortedSeq(S \ {Min(S)})

RECURSIVE Flatten(_)
Flatten(ss) == IF ss = <<>> THEN <<>> ELSE Head(ss) \o Flatten(Tail(ss))

\* Python's None, where it is kept apart from ""
None == "None"

RECURSIVE Concat(_)
Concat(ss) == IF ss = <<>> THEN "" ELSE Head(ss) \o Concat(Tail(ss))

----------------------------------------------------------------------------
(* Messages (llm_client.py 56-75, 176-184)                                  *)

Msg(role, hc, c, htc, tcs, tcid) ==
    [role |-> role, has_content |-> hc, content |-> c,
     has_tool_calls |-> htc, tool_calls |-> tcs, tool_call_id |-> tcid]

SystemMessage(c) == Msg("system", TRUE, c, FALSE, <<>>, "")

UserMessage(c) == Msg("user", TRUE, c, FALSE, <<>>, "")

ToolResultMessage(id, c) == Msg("tool", TRUE, c, FALSE, <<>>, id)

\* the tool-call requests of a message as its readers take them:
\* msg.get("tool_calls", [])
ToolCallsOf(m) == IF m.has_tool_calls THEN m.tool_calls ELSE <<>>

----------------------------------------------------------------------------
(* The stream aggregator (llm_client.py 140-184)                            *)

\* tool_calls_data[idx] = {"id": "", "type": "function",
\*                         "function": {"name": "", "arguments": ""}}
NewToolCall == [id |-> "", type |-> "function", name |-> "", arguments |-> ""]

Keys(d) == {d[i].key : i \in 1..Len(d)}

Get(d, k) == (CHOOSE i \in 1..Len(d) : d[i].key = k)

\* dict[k] = v: a new key goes last, an existing key keeps its position
Put(d, k, v) ==
    IF k \in Keys(d)
    THEN [d EXCEPT ![Get(d, k)] = [key |-> k, val |-> v]]
    ELSE Append(d, [key |-> k, val |-> v])

Lookup(d, k) == d[Get(d, k)].val

\* lines 157-173 with the identifier and the name assigned from every fragment
ApplyToolCallDeltaAssigning(d, tc) ==
    LET d1 == IF tc.index \in Keys(d) THEN d ELSE Put(d, tc.index, NewToolCall)
        r0 == Lookup(d1, tc.index)
        r1 == [r0 EXCEPT !.id = tc.id]
        r2 == IF tc.has_function THEN [r1 EXCEPT !.name = tc.name] ELSE r1
        r3 == IF tc.has_function /\ tc.arguments # ""
              THEN [r2 EXCEPT !.arguments = r2.arguments \o tc.arguments] ELSE r2
    IN  Put(d1, tc.index, r3)

\* lines 157-173: one entry of delta.tool_calls
ApplyToolCallDelta(d, tc) ==
    LET d1 == IF tc.index \in Keys(d) THEN d ELSE Put(d, tc.index, NewToolCall)
        r0 == Lookup(d1, tc.index)
        r1 == IF tc.id # "" THEN [r0 EXCEPT !.id = tc.id] ELSE r0
        r2 == IF tc.has_function /\ tc.name # ""
              THEN [r1 EXCEPT !.name = tc.name] ELSE r1
        r3 == IF tc.has_function /\ tc.arguments # ""
              THEN [r2 EXCEPT !.arguments = r2.arguments \o tc.arguments] ELSE r2
    IN  Put(d1, tc.index, r3)

\* lines 155-156: for tool_call in delta.tool_calls
RECURSIVE ApplyToolCallDeltas(_, _)
ApplyToolCallDeltas(d, tcs) ==
    IF tcs = <<>> THEN d
    ELSE ApplyToolCallDeltas(ApplyToolCallDelta(d, Head(tcs)), Tail(tcs))

SortedKeysOrder(d) == SortedSeq(Keys(d))

InsertionKeysOrder(d) == [i \in 1..Len(d) |-> d[i].key]

\* line 181: sorted(tool_calls_data.keys())
EmitOrder(d) == SortedKeysOrder(d)

\* lines 176-182
BuildAssistantMsg(content, d) ==
    Msg("assistant", content # "", content, d # <<>>,
        [i \in 1..Len(d) |-> Lookup(d, EmitOrder(d)[i])], "")

\* lines 143-173: the body of "async for chunk in stream" for one chunk
ConsumeContent(content, chunk) ==
    IF chunk.has_choices /\ chunk.content # "" THEN content \o chunk.content
    ELSE content

ConsumeToolCalls(d, chunk) ==
    IF chunk.has_choices THEN ApplyToolCallDeltas(d, chunk.tool_calls) ELSE d

\* line 152 reached for every chunk that has a delta, whatever its content
ConsumeYieldEveryDelta(out, chunk) ==
    IF chunk.has_choices THEN Append(out, chunk.content) ELSE out

\* line 152: yield delta.content
ConsumeYield(out, chunk) ==
    IF chunk.has_choices /\ chunk.content # "" THEN Append(out, chunk.content)
    ELSE out

\* line 138: the request is accepted and the stream opens
StreamOpen ==
    /\ spc = "idle"
    /\ spc' = "loop"
    /\ chunks' = <<>>
    /\ full_content' = ""
    /\ tool_calls_data' = <<>>
    /\ yielded' = <<>>
    /\ UNCHANGED <<messages, response, chat, mvars, tvars>>

\* line 138 raises, or the stream raises between two chunks: nothing is appended
StreamFail ==
    /\ spc \in {"idle", "loop"}
    /\ spc' = "failed"
    /\ UNCHANGED <<messages, chunks, full_content, tool_calls_data, yielded, response,
                    chat, mvars, tvars>>

StreamChunk(chunk) ==
    /\ spc = "loop"
    /\ Len(chunks) < MaxChunks
    /\ chunks' = Append(chunks, chunk)
    /\ full_content' = ConsumeContent(full_content, chunk)
    /\ tool_calls_data' = ConsumeToolCalls(tool_calls_data, chunk)
    /\ yielded' = ConsumeYield(yielded, chunk)
    /\ UNCHANGED <<messages, spc, response, chat, mvars, tvars>>

\* lines 175-184: the stream is exhausted
StreamEnd ==
    /\ spc = "loop"
    /\ messages' = Append(messages, BuildAssistantMsg(full_content, tool_calls_data))
    /\ spc' = "done"
    /\ UNCHANGED <<chunks, full_content, tool_calls_data, yielded, response, chat, mvars, tvars>>

----------------------------------------------------------------------------
(* The response that is not streamed (llm_client.py 186-229)                *)

\* no response object has been received
NoResponse == [given |-> FALSE, content |-> "", tool_calls |-> <<>>]

\* response.choices[0].message: content is a str or None, tool_calls a list
\* (None is the empty list) of calls whose id, function.name and
\* function.arguments are each a str or None
Response(content, tcs) == [given |-> TRUE, content |-> content, tool_calls |-> tcs]

ToolCall(id, name, arguments) == [id |-> id, name |-> name, arguments |-> arguments]

\* lines 211-226: the assistant message built from the response; tc.id,
\* tc.function.name and tc.function.arguments are stored as they are
GetResponseMsg(resp) ==
    Msg("assistant", resp.content \notin {"", None},
        IF resp.content = None THEN "" ELSE resp.content,
        resp.tool_calls # <<>>,
        [i \in 1..Len(resp.tool_calls) |->
            [id |-> resp.tool_calls[i].id,
             type |-> "function",
             name |-> resp.tool_calls[i].name,
             arguments |-> resp.tool_calls[i].arguments]],
        "")

\* lines 208-229: _get_response
GetResponse(resp) ==
    /\ spc = "idle"
    /\ response' = resp
    /\ messages' = Append(messages, GetResponseMsg(resp))
    /\ spc' = "got"
    /\ UNCHANGED <<chunks, full_content, tool_calls_data, yielded, chat, mvars, tvars>>

\* the same response as the one event of a stream: a delta with the content
\* and the tool calls, the i-th call in slot i - 1 (lines 147-173 read
\* delta.content, tool_call.index, .id, .function.name, .function.arguments)
Falsy(text) == IF text = None THEN "" ELSE text

AsSingleEvent(resp) ==
    [has_choices |-> TRUE,
     content |-> Falsy(resp.content),
     tool_calls |->
        [i \in 1..Len(resp.tool_calls) |->
            [index |-> i - 1,
             id |-> Falsy(resp.tool_calls[i].id),
             has_function |-> TRUE,
             name |-> Falsy(resp.tool_calls[i].name),
             arguments |-> Falsy(resp.tool_calls[i].arguments)]]]

\* lines 143-173 for a stream that delivers `resp` as its one event
StreamSingle(resp) ==
    /\ spc = "loop"
    /\ chunks = <<>>
    /\ response' = resp
    /\ chunks' = <<AsSingleEvent(resp)>>
    /\ full_content' = ConsumeContent(full_content, AsSingleEvent(resp))
    /\ tool_calls_data' = ConsumeToolCalls(tool_calls_data, AsSingleEvent(resp))
    /\ yielded' = ConsumeYield(yielded, AsSingleEvent(resp))
    /\ UNCHANGED <<messages, spc, chat, mvars, tvars>>

----------------------------------------------------------------------------

(* Console output: console.print renders its text as rich markup, and a     *)
(* closing tag that matches no open tag raises MarkupError                  *)

\* the interpolated texts of this model that hold such a closing tag
StrayTagTexts == {"[/etc]", "ls [/etc]", "lost [/data]", "see [/INST]"}

\* str(MarkupError): the message quotes the tag it could not match
MarkupErrorText == "closing tag '[/..]' doesn't match any open tag"

\* the tool names that occur in the requests of this model
CalledNames == {"t", "u", "x", "run_command", ""}

\* console.print(f"[style]... {text}[/style]") raises MarkupError
HasStrayTag(text) ==
    \E a \in StrayTagTexts \cup {MarkupErrorText} :
        \/ text = a
        \/ \E n \in CalledNames : text = "Error calling tool '" \o n \o "': " \o a

----------------------------------------------------------------------------
(* Provider connections (mcp_manager.py 16-58)                              *)

\* a Tool of mcp.types: name, description (a str or None), inputSchema (the
\* text of a dict, or None)
Tool(n, desc, schema) == [name |-> n, description |-> desc, inputSchema |-> schema]

TextPart(t) == [type |-> "text", text |-> t, mimeType |-> "", data |-> ""]

\* an image or audio part: its payload `data` and its declared media type
BinaryPart(mime, data) == [type |-> "data", text |-> "", mimeType |-> mime, data |-> data]

\* the loop body of lines 50-56 with the payload in the placeholder
PartTextWithPayload(part) ==
    IF part.type = "text" THEN part.text
    ELSE IF part.type = "data"
    THEN "[Binary data: " \o part.mimeType \o " " \o part.data \o "]"
    ELSE "<" \o part.type \o ">"

\* lines 50-56: what one result part contributes
PartText(part) ==
    IF part.type = "text" THEN part.text
    ELSE IF part.type = "data" THEN "[Binary data: " \o part.mimeType \o "]"
    ELSE "<" \o part.type \o ">"

\* line 58: "\n".join(contents)
RECURSIVE JoinLines(_)
JoinLines(ss) ==
    IF ss = <<>> THEN ""
    ELSE IF Len(ss) = 1 THEN ss[1]
    ELSE ss[1] \o "\n" \o JoinLines(Tail(ss))

\* lines 46-58: MCPServerConnection.call_tool, given what session.call_tool does
ConnectionCallTool(reply) ==
    IF reply.ok
    THEN [raised |-> FALSE,
          text |-> JoinLines([i \in 1..Len(reply.parts) |-> PartText(reply.parts[i])])]
    ELSE [raised |-> TRUE, text |-> reply.error]

----------------------------------------------------------------------------
(* MCPManager (mcp_manager.py 61-209)                                       *)

Has(d, k) == k \in Keys(d)

\* dict.get(k): the value, or None
NoServer == [none |-> TRUE, name |-> ""]

SomeServer(n) == [none |-> FALSE, name |-> n]

\* lines 76-80: __aenter__
Enter ==
    /\ mpc = "new"
    /\ mpc' = "open"
    /\ UNCHANGED <<messages, svars, tvars, connections, tool_to_server, exit_stack, closed,
                   servers, ca, attempts, last_call, last_tools>>

Resource(kind, sess) == [kind |-> kind, session |-> sess]

\* lines 116-121 entering the contexts on the exit stack only for a
\* connection that gets stored
AcquiredWhenStored(outcome, sess) ==
    IF outcome = "ok"
    THEN <<Resource("transport", sess), Resource("session", sess)>>
    ELSE <<>>

\* lines 116-121: the contexts a connect_server call leaves on the exit stack
Acquired(outcome, sess) ==
    IF outcome \in {"no_context", "spawn_failed"} THEN <<>>
    ELSE <<Resource("transport", sess), Resource("session", sess)>>

\* lines 129-130: for tool in connection.catalog: _tool_to_server[tool.name] = name
RegisterTools(table, catalog, name) ==
    LET RECURSIVE Go(_, _)
        Go(t, k) == IF k > Len(catalog) THEN t
                    ELSE Go(Put(t, catalog[k].name, name), k + 1)
    IN  Go(table, 1)

Connection(name, sess, catalog) == [name |-> name, session |-> sess, tools |-> catalog]

NextSession == Len(attempts) + 1

\* connect_server going on to the catalog when the handshake has failed
ConnectServerWithoutHandshake(name, catalog, outcome, via) ==
    /\ (outcome = "no_context") = (mpc = "new")
    /\ exit_stack' = exit_stack \o Acquired(outcome, NextSession)
    /\ attempts' = Append(attempts, [name |-> name, outcome |-> outcome,
                                     session |-> NextSession, via |-> via])
    /\ last_tools' = [last_tools EXCEPT !.fresh = FALSE, !.again = FALSE]
    /\ IF outcome \in {"ok", "handshake_failed"}
       THEN /\ connections' = Put(connections, name,
                                  Connection(name, NextSession, catalog))
            /\ tool_to_server' = RegisterTools(tool_to_server, catalog, name)
       ELSE UNCHANGED <<connections, tool_to_server>>

\* connect_server storing the connection before it is initialized
ConnectServerStoringEarly(name, catalog, outcome, via) ==
    /\ (outcome = "no_context") = (mpc = "new")
    /\ exit_stack' = exit_stack \o Acquired(outcome, NextSession)
    /\ attempts' = Append(attempts, [name |-> name, outcome |-> outcome,
                                     session |-> NextSession, via |-> via])
    /\ last_tools' = [last_tools EXCEPT !.fresh = FALSE, !.again = FALSE]
    /\ IF outcome = "ok"
       THEN /\ connections' = Put(connections, name,
                                  Connection(name, NextSession, catalog))
            /\ tool_to_server' = RegisterTools(tool_to_server, catalog, name)
       ELSE IF outcome \in {"handshake_failed", "list_tools_failed"}
       THEN /\ connections' = Put(connections, name,
                                  Connection(name, NextSession, <<>>))
            /\ UNCHANGED tool_to_server
       ELSE UNCHANGED <<connections, tool_to_server>>

\* connect_server dropping the routes of a server whose connect fails
ConnectServerForgetting(name, catalog, outcome, via) ==
    /\ (outcome = "no_context") = (mpc = "new")
    /\ exit_stack' = exit_stack \o Acquired(outcome, NextSession)
    /\ attempts' = Append(attempts, [name |-> name, outcome |-> outcome,
                                     session |-> NextSession, via |-> via])
    /\ last_tools' = [last_tools EXCEPT !.fresh = FALSE, !.again = FALSE]
    /\ IF outcome = "ok"
       THEN /\ connections' = Put(connections, name,
                                  Connection(name, NextSession, catalog))
            /\ tool_to_server' = RegisterTools(tool_to_server, catalog, name)
       ELSE /\ tool_to_server' = SelectSeq(tool_to_server, LAMBDA e : e.val # name)
            /\ UNCHANGED connections

\* lines 101-132: connect_server(name, ...) where the provider behaves as
\* `outcome` says and, when it gets that far, lists the tools `catalog`
ConnectServer(name, catalog, outcome, via) ==
    /\ (outcome = "no_context") = (mpc = "new")
    /\ exit_stack' = exit_stack \o Acquired(outcome, NextSession)
    /\ attempts' = Append(attempts, [name |-> name, outcome |-> outcome,
                                     session |-> NextSession, via |-> via])
    /\ last_tools' = [last_tools EXCEPT !.fresh = FALSE, !.again = FALSE]
    /\ IF outcome = "ok"
       THEN /\ connections' = Put(connections, name,
                                  Connection(name, NextSession, catalog))
            /\ tool_to_server' = RegisterTools(tool_to_server, catalog, name)
       ELSE UNCHANGED <<connections, tool_to_server>>

ConnectOutcomes ==
    {"no_context", "spawn_failed", "handshake_failed", "list_tools_failed", "ok"}

DirectConnects ==
    Cardinality({i \in 1..Len(attempts) : attempts[i].via = "connect_server"})

\* a direct call of connect_server by the manager's owner (main.py 35, 67)
ConnectServerCall(name, catalog, outcome) ==
    /\ mpc \in {"new", "open"}
    /\ ca.pc # "loop"
    /\ DirectConnects < MaxConnects
    /\ ConnectServer(name, catalog, outcome, "connect_server")
    /\ UNCHANGED <<messages, svars, tvars, mpc, closed, servers, ca, last_call>>

\* lines 143-145: connect_all_servers is called
ConnectAllStart ==
    /\ mpc \in {"new", "open"}
    /\ ca.pc = "idle"
    /\ ca' = [pc |-> IF servers = <<>> THEN "returned" ELSE "loop", i |-> 1,
              ret |-> IF servers = <<>> THEN Keys(connections) ELSE {}]
    /\ UNCHANGED <<messages, svars, tvars, connections, tool_to_server, exit_stack, mpc,
                   closed, servers, attempts, last_call, last_tools>>

\* line 102 and the failures of lines 116-124: the message of the exception
ConnectErrors(outcome) ==
    IF outcome = "ok" THEN {""}
    ELSE IF outcome = "no_context"
    THEN {"MCPManager must be used as async context manager"}
    ELSE {"boom", "lost [/data]"}

\* lines 145-154: where connect_all_servers is after one iteration whose
\* connect_server ended as `outcome` with the message `error`; line 152
\* prints the message from inside the except clause
ConnectAllAfter(outcome, error) ==
    IF outcome # "ok" /\ HasStrayTag(error)
    THEN [pc |-> "raised", i |-> ca.i, ret |-> {}]
    ELSE IF ca.i = Len(servers)
    THEN [pc |-> "returned", i |-> ca.i + 1, ret |-> Keys(connections')]
    ELSE [pc |-> "loop", i |-> ca.i + 1, ret |-> {}]

\* lines 145-152: one iteration of the loop over the configured servers;
\* lines 147 and 152 print the server's name
ConnectAllStep(catalog, outcome, error) ==
    /\ ca.pc = "loop"
    /\ error \in ConnectErrors(outcome)
    /\ IF HasStrayTag(servers[ca.i])
       THEN /\ ca' = [pc |-> "raised", i |-> ca.i, ret |-> {}]
            /\ UNCHANGED <<connections, tool_to_server, exit_stack, attempts, last_tools>>
       ELSE /\ ConnectServer(servers[ca.i], catalog, outcome, "connect_all_servers")
            /\ ca' = ConnectAllAfter(outcome, error)
    /\ UNCHANGED <<messages, svars, tvars, mpc, closed, servers, last_call>>

\* lines 162-165: get_all_tools
AllTools == Flatten([i \in 1..Len(connections) |-> connections[i].val.tools])

\* line 180: the schema that stands in for a missing one
EmptyObjectSchema == "{type: object, properties: {}}"

\* get_openai_tools passing description and inputSchema on as they are
OpenAIToolAsIs(tool) ==
    [type |-> "function",
     function |-> [name |-> tool.name, description |-> tool.description,
                   parameters |-> tool.inputSchema]]

\* lines 176-183: one tool in OpenAI form; "x or default" takes the default
\* for None and for the empty str or dict
OpenAITool(tool) ==
    [type |-> "function",
     function |->
        [name |-> tool.name,
         description |-> IF tool.description \in {None, ""} THEN ""
                         ELSE tool.description,
         parameters |-> IF tool.inputSchema \in {None, "{}"} THEN EmptyObjectSchema
                        ELSE tool.inputSchema]]

\* lines 173-186: the list get_openai_tools returns
OpenAITools == [i \in 1..Len(AllTools) |-> OpenAITool(AllTools[i])]

\* get_openai_tools that hands out the descriptors once: it drains the list it
\* keeps, so that a second call finds nothing
GetOpenAIToolsDraining ==
    /\ mpc \in {"new", "open"}
    /\ ca.pc # "loop"
    /\ last_tools' = [ret |-> IF last_tools.fresh THEN <<>> ELSE OpenAITools,
                      fresh |-> TRUE, again |-> last_tools.fresh]
    /\ UNCHANGED <<messages, svars, tvars, connections, tool_to_server, exit_stack, mpc,
                   closed, servers, ca, attempts, last_call>>

\* lines 167-186: get_openai_tools is called
GetOpenAITools ==
    /\ mpc \in {"new", "open"}
    /\ ca.pc # "loop"
    /\ last_tools' = [ret |-> OpenAITools, fresh |-> TRUE, again |-> last_tools.fresh]
    /\ UNCHANGED <<messages, svars, tvars, connections, tool_to_server, exit_stack, mpc,
                   closed, servers, ca, attempts, last_call>>

\* line 198: self._tool_to_server.get(name)
ServerOf(name) ==
    IF Has(tool_to_server, name) THEN SomeServer(Lookup(tool_to_server, name))
    ELSE NoServer

\* lines 198-209: MCPManager.call_tool(name, arguments) when the provider's
\* session answers `reply`; `session` is the connection the call was forwarded to
CallTool(name, reply) ==
    LET server == ServerOf(name)
    IN  IF server.none \/ server.name = ""
        THEN [raised |-> FALSE, session |-> 0,
              text |-> "Error: Tool '" \o name \o "' not found"]
        ELSE IF ~Has(connections, server.name)
        THEN [raised |-> FALSE, session |-> 0,
              text |-> "Error: Server '" \o server.name \o "' not connected"]
        ELSE LET r == ConnectionCallTool(reply)
             IN  [raised |-> FALSE, session |-> Lookup(connections, server.name).session,
                  text |-> IF r.raised
                           THEN "Error calling tool '" \o name \o "': " \o r.text
                           ELSE r.text]

\* a direct call of MCPManager.call_tool
ManagerCallTool(name, reply) ==
    /\ mpc \in {"new", "open"}
    /\ ca.pc # "loop"
    /\ last_call' = [called |-> TRUE, name |-> name, reply |-> reply,
                     result |-> CallTool(name, reply)]
    /\ UNCHANGED <<messages, svars, tvars, connections, tool_to_server, exit_stack, mpc,
                   closed, servers, ca, attempts, last_tools>>

\* lines 82-85: __aexit__ begins
ExitStart ==
    /\ mpc = "open"
    /\ ca.pc # "loop"
    /\ mpc' = IF exit_stack = <<>> THEN "closed" ELSE "exiting"
    /\ UNCHANGED <<messages, svars, tvars, connections, tool_to_server, exit_stack, closed,
                   servers, ca, attempts, last_call, last_tools>>

CloseFailures == Cardinality({i \in 1..Len(closed) : ~closed[i].ok})

\* AsyncExitStack.__aexit__ that gives up at the first close that fails
ExitNextFailFast(stack, ok) ==
    IF ok THEN SubSeq(stack, 1, Len(stack) - 1) ELSE <<>>

\* AsyncExitStack.__aexit__: what is left to close after the top context is closed
ExitNext(stack, ok) == SubSeq(stack, 1, Len(stack) - 1)

\* line 85: the exit stack closes its most recently entered context
ExitStep(ok) ==
    /\ mpc = "exiting"
    /\ ok \/ CloseFailures < MaxCloseFailures
    /\ closed' = Append(closed, [res |-> Last(exit_stack), ok |-> ok])
    /\ exit_stack' = ExitNext(exit_stack, ok)
    /\ mpc' = IF exit_stack' = <<>> THEN "closed" ELSE "exiting"
    /\ UNCHANGED <<messages, svars, tvars, connections, tool_to_server, servers, ca,
                   attempts, last_call, last_tools>>

----------------------------------------------------------------------------
(* Tool-call arguments: json.loads (cli.py 164-167)                          *)

\* a decoded JSON value: t is "dict", "list", "str", "int" or "null"
JVal(t, v, items) == [t |-> t, v |-> v, items |-> items]

JStr(v) == JVal("str", v, <<>>)

JInt(v) == JVal("int", v, <<>>)

JNull == JVal("null", "", <<>>)

JDict(items) == JVal("dict", "", items)

JList == JVal("list", "", <<>>)

Item(k, v) == [key |-> k, val |-> v]

\* an argument text of 1000 opening brackets, which is not a JSON document
DeepNesting == "[[[[[[[[ ... [[[[[[[["

\* json.loads on the argument texts of this model: the decoded value, or the
\* exception: JSONDecodeError for a text that is not a JSON document, but
\* RecursionError when the decoder runs out of stack before it finds that out
JsonLoads(text) ==
    CASE text = "{}" -> [ok |-> TRUE, error |-> "", value |-> JDict(<<>>)]
      [] text = "[]" -> [ok |-> TRUE, error |-> "", value |-> JList]
      [] text = DeepNesting -> [ok |-> FALSE, value |-> JNull, error |-> "RecursionError"]
      [] text = "{\"command\":\"ls\"}" ->
            [ok |-> TRUE, error |-> "", value |-> JDict(<<Item("command", JStr("ls"))>>)]
      [] text = "{\"command\":\"ls\",\"timeout\":5}" ->
            [ok |-> TRUE, error |-> "",
             value |-> JDict(<<Item("command", JStr("ls")), Item("timeout", JInt("5"))>>)]
      [] text = "{\"command\":\"ls\",\"timeout\":null}" ->
            [ok |-> TRUE, error |-> "",
             value |-> JDict(<<Item("command", JStr("ls")), Item("timeout", JNull)>>)]
      [] text = "{\"command\":5}" ->
            [ok |-> TRUE, error |-> "", value |-> JDict(<<Item("command", JInt("5"))>>)]
      [] text = "{\"command\":\"ls [/etc]\"}" ->
            [ok |-> TRUE, error |-> "",
             value |-> JDict(<<Item("command", JStr("ls [/etc]"))>>)]
      [] text = "{\"path\":\"[/etc]\"}" ->
            [ok |-> TRUE, error |-> "", value |-> JDict(<<Item("path", JStr("[/etc]"))>>)]
      [] OTHER -> [ok |-> FALSE, value |-> JNull, error |-> "JSONDecodeError"]

\* lines 164-167: try: args = json.loads(...) except JSONDecodeError: args = {}
DecodeArguments(text) ==
    IF JsonLoads(text).ok THEN JsonLoads(text).value ELSE JDict(<<>>)

\* lines 164-167: the exception of json.loads that the except clause lets through
DecodeRaises(text) ==
    ~JsonLoads(text).ok /\ JsonLoads(text).error # "JSONDecodeError"

\* dict.get(key, default)
DictGet(d, k, default) == IF Has(d.items, k) THEN Lookup(d.items, k) ELSE default

\* json.dumps(value, indent=2) holds a closing tag (cli.py 107)
DumpsHasStrayTag(val) ==
    \/ val.t = "str" /\ HasStrayTag(val.v)
    \/ \E i \in 1..Len(val.items) :
          HasStrayTag(val.items[i].key)
          \/ (val.items[i].val.t = "str" /\ HasStrayTag(val.items[i].val.v))

\* bool(value)
Truthy(val) ==
    CASE val.t = "str" -> val.v # ""
      [] val.t = "int" -> val.v # "0"
      [] val.t = "null" -> FALSE
      [] OTHER -> val.items # <<>>

----------------------------------------------------------------------------
(* The local tool executor (sandbox.py 8-40)                                *)

SANDBOX_TOOL_NAME == "run_command"

DEFAULT_TIMEOUT == 30

\* str.strip() on the texts of this model, none of which has inner padding
Strip(text) == IF text \in {" ", "\n", "\n\n"} THEN "" ELSE text

\* what the subprocess does: it exits, it outlives the timeout, or it cannot start
Exited(code, out, err) ==
    [kind |-> "exit", code |-> code, out |-> out, err |-> err, cwd_is_dir |-> TRUE]

\* the command is still running when any timeout expires
TimedOut == [kind |-> "timeout", code |-> 0, out |-> "", err |-> "", cwd_is_dir |-> TRUE]

\* subprocess.run raises an exception of the message err (lines 39-40)
StartFailed(err) ==
    [kind |-> "failed", code |-> 0, out |-> "", err |-> err, cwd_is_dir |-> TRUE]

\* no subprocess was started
NoRun == [kind |-> "none", code |-> 0, out |-> "", err |-> "", cwd_is_dir |-> TRUE]

\* how run_sandbox_command ends: it raises, it returns a text, or it never
\* returns; `ran` says that subprocess.run was reached
Raised(text) == [raised |-> TRUE, text |-> text, hangs |-> FALSE, ran |-> FALSE]

Returned(text) == [raised |-> FALSE, text |-> text, hangs |-> FALSE, ran |-> FALSE]

Ran(text) == [raised |-> FALSE, text |-> text, hangs |-> FALSE, ran |-> TRUE]

\* line 24 with timeout=None: subprocess.run waits for the command without limit
Hangs == [raised |-> FALSE, text |-> "", hangs |-> TRUE, ran |-> TRUE]

\* lines 32-36: the text for a command that ran to completion
CompletedText(run) ==
    IF run.code # 0
    THEN "exit code " \o ToString(run.code)
         \o (IF Strip(run.out) = "" /\ Strip(run.err) = "" THEN ""
             ELSE "\n" \o run.out
                  \o (IF Strip(run.err) = "" THEN "" ELSE "\n" \o run.err))
    ELSE IF Strip(run.out) # "" THEN Strip(run.out) ELSE "(no output)"

\* lines 18-40: run_sandbox_command(command, timeout, cwd)
RunSandboxCommand(command, timeout, cwd, run) ==
    IF ~Truthy(command) THEN Returned("Error: empty command")
    ELSE IF command.t # "str"
    THEN Raised("AttributeError: object has no attribute 'strip'")
    ELSE IF Strip(command.v) = "" THEN Returned("Error: empty command")
    ELSE IF Truthy(cwd) /\ cwd.t # "str"
    THEN Raised("TypeError: expected str, bytes or os.PathLike object")
    ELSE IF Truthy(cwd) /\ ~run.cwd_is_dir
    THEN Returned("Error: cwd is not a directory: " \o cwd.v)
    ELSE IF timeout.t \notin {"int", "null"}
    THEN Returned("Error: unsupported timeout")
    ELSE IF run.kind = "exit" THEN Ran(CompletedText(run))
    ELSE IF run.kind = "timeout"
    THEN IF timeout.t = "null" THEN Hangs
         ELSE Ran("Error: command timed out after " \o timeout.v \o " seconds")
    ELSE Ran("Error: " \o run.err)

\* lines 43-70: get_sandbox_tool()
SandboxTool ==
    [type |-> "function",
     function |-> [name |-> SANDBOX_TOOL_NAME,
                   description |-> "Run a single basic Linux shell command.",
                   parameters |-> "{type: object, properties: {command, timeout, cwd}}"]]

----------------------------------------------------------------------------
(* ChatSession (cli.py 72-181)                                              *)

\* config.system_prompt
SystemPrompt == "system prompt"

\* lines 85-90: ChatSession(config, mcp_manager, sandbox_enabled); the
\* manager is passed once connect_all_servers has returned (cli.py 353-361)
\* or, for a single prompt, also once it has raised (cli.py 403-410)
NewSession(mgr, sandbox) ==
    /\ ~session.exists
    /\ IF mgr THEN mpc = "open" /\ ca.pc \in {"returned", "raised"} ELSE mpc = "new"
    /\ session' = [exists |-> TRUE, mcp_manager |-> mgr, sandbox_enabled |-> sandbox,
                   config_provider |-> session.config_provider,
                   provider_name |-> session.config_provider]
    /\ messages' = <<SystemMessage(SystemPrompt)>>
    /\ UNCHANGED <<svars, mvars, pc, tools, tool_calls, ti, requests, sent, last_exec>>

\* how execute_tool ends; hangs: it never returns; run: what the subprocess
\* it started did
Exec(raised, text, route, sess, failed) ==
    [raised |-> raised, text |-> text, route |-> route, session |-> sess,
     failed |-> failed, hangs |-> FALSE, run |-> NoRun]

\* lines 109-117: the dispatch of execute_tool(name, arguments), where the
\* provider would answer env.reply and the subprocess would do env.run
DispatchTool(name, arguments, env) ==
    IF name = SANDBOX_TOOL_NAME /\ session.sandbox_enabled
    THEN IF arguments.t # "dict"
         THEN Exec(TRUE, "AttributeError: object has no attribute 'get'",
                   "sandbox", 0, FALSE)
         ELSE LET r == RunSandboxCommand(
                           DictGet(arguments, "command", JStr("")),
                           DictGet(arguments, "timeout", JInt(ToString(DEFAULT_TIMEOUT))),
                           DictGet(arguments, "cwd", JNull), env.run)
              IN  [Exec(r.raised, r.text, "sandbox", 0, FALSE)
                      EXCEPT !.hangs = r.hangs,
                             !.run = IF r.ran THEN env.run ELSE NoRun]
    ELSE IF session.mcp_manager
    THEN LET r == CallTool(name, env.reply)
         IN  Exec(r.raised, r.text, "mcp", r.session, r.session # 0 /\ ~env.reply.ok)
    ELSE Exec(FALSE, "Error: No MCP servers connected and tool is not run_command",
              "none", 0, FALSE)

\* lines 106-123: execute_tool(name, arguments): it prints the name and the
\* arguments, dispatches, prints the result and returns it
ExecuteTool(name, arguments, env) ==
    IF HasStrayTag(name) \/ DumpsHasStrayTag(arguments)
    THEN Exec(TRUE, MarkupErrorText, "none", 0, FALSE)
    ELSE LET r == DispatchTool(name, arguments, env)
         IN  IF ~r.raised /\ HasStrayTag(r.text)
             THEN [r EXCEPT !.raised = TRUE, !.text = MarkupErrorText]
             ELSE r

\* lines 135-141: the tools list of a turn (None is the empty list)
TurnTools ==
    (IF session.mcp_manager THEN OpenAITools ELSE <<>>)
    \o (IF session.sandbox_enabled THEN <<SandboxTool>> ELSE <<>>)

\* lines 131-147: process_message(user_input) up to the first request
ProcessMessage(user_input) ==
    /\ session.exists
    /\ pc \in {"idle", "done", "aborted"}
    /\ requests < MaxRequests
    /\ messages' = Append(messages, UserMessage(user_input))
    /\ tools' = TurnTools
    /\ pc' = "request"
    /\ UNCHANGED <<svars, mvars, session, tool_calls, ti, requests, sent, last_exec>>

\* _stream_response run to the end of `stream` (llm_client.py 140-184)
RECURSIVE StreamedContent(_, _)
StreamedContent(content, stream) ==
    IF stream = <<>> THEN content
    ELSE StreamedContent(ConsumeContent(content, Head(stream)), Tail(stream))

RECURSIVE StreamedToolCalls(_, _)
StreamedToolCalls(d, stream) ==
    IF stream = <<>> THEN d
    ELSE StreamedToolCalls(ConsumeToolCalls(d, Head(stream)), Tail(stream))

AssistantMsgOf(stream) ==
    BuildAssistantMsg(StreamedContent("", stream), StreamedToolCalls(<<>>, stream))

\* llm_client.py 127-138: the keyword arguments of the request: the
\* conversation, and the tools unless the list is None or empty
Request(msgs, tls) == [messages |-> msgs, has_tools |-> tls # <<>>, tools |-> tls]

\* lines 180-181: the handler prints the exception's message; the turn is
\* aborted, or the print raises and the exception leaves process_message
AfterError(text) == IF HasStrayTag(text) THEN "escaped" ELSE "aborted"

\* process_message passing the tools to the first request of a turn only
StreamResponseToolsOnce(stream) ==
    /\ pc = "request"
    /\ requests < MaxRequests
    /\ requests' = requests + 1
    /\ sent' = Request(messages, IF Last(messages).role = "tool" THEN <<>> ELSE tools)
    /\ IF \E i \in 1..Len(stream) : stream[i].has_choices /\ HasStrayTag(stream[i].content)
       THEN /\ pc' = AfterError(MarkupErrorText)
            /\ UNCHANGED messages
       ELSE /\ messages' = Append(messages, AssistantMsgOf(stream))
            /\ pc' = "check"
    /\ UNCHANGED <<svars, mvars, session, tools, tool_calls, ti, last_exec>>

\* process_message sending the conversation without its tool messages
StreamResponseOmittingToolMessages(stream) ==
    /\ pc = "request"
    /\ requests < MaxRequests
    /\ requests' = requests + 1
    /\ sent' = Request(SelectSeq(messages, LAMBDA m : m.role # "tool"), tools)
    /\ IF \E i \in 1..Len(stream) : stream[i].has_choices /\ HasStrayTag(stream[i].content)
       THEN /\ pc' = AfterError(MarkupErrorText)
            /\ UNCHANGED messages
       ELSE /\ messages' = Append(messages, AssistantMsgOf(stream))
            /\ pc' = "check"
    /\ UNCHANGED <<svars, mvars, session, tools, tool_calls, ti, last_exec>>

\* lines 151-153: the request is sent with the whole conversation, the stream
\* is consumed, each text chunk printed, and the assistant message is appended
StreamResponse(stream) ==
    /\ pc = "request"
    /\ requests < MaxRequests
    /\ requests' = requests + 1
    /\ sent' = Request(messages, tools)
    /\ IF \E i \in 1..Len(stream) : stream[i].has_choices /\ HasStrayTag(stream[i].content)
       THEN /\ pc' = AfterError(MarkupErrorText)
            /\ UNCHANGED messages
       ELSE /\ messages' = Append(messages, AssistantMsgOf(stream))
            /\ pc' = "check"
    /\ UNCHANGED <<svars, mvars, session, tools, tool_calls, ti, last_exec>>

\* lines 151 and 180-181: the request or its stream raises an exception whose
\* message is `error`; the assistant message is not appended (llm_client.py
\* 138-184) and the handler prints the message
StreamResponseFails(error) ==
    /\ pc = "request"
    /\ requests < MaxRequests
    /\ requests' = requests + 1
    /\ sent' = Request(messages, tools)
    /\ pc' = AfterError(error)
    /\ UNCHANGED <<messages, svars, mvars, session, tools, tool_calls, ti, last_exec>>

\* llm_client.py 231-240: _has_pending_tool_calls
HasPendingToolCalls(msgs) ==
    /\ msgs # <<>>
    /\ Last(msgs).role = "assistant"
    /\ Last(msgs).has_tool_calls
    /\ Last(msgs).tool_calls # <<>>

\* lines 156-160 and 175-178: the batch is taken, or the turn is done
CheckPending ==
    /\ pc = "check"
    /\ IF HasPendingToolCalls(messages)
       THEN /\ pc' = "executing"
            /\ tool_calls' = Last(messages).tool_calls
            /\ ti' = 1
       ELSE /\ pc' = "done"
            /\ UNCHANGED <<tool_calls, ti>>
    /\ UNCHANGED <<messages, svars, mvars, session, tools, requests, sent, last_exec>>

\* the loop of lines 162-170 taking the requests last to first
ExecuteToolCallDescending(env) ==
    /\ pc = "executing"
    /\ LET tc == tool_calls[Len(tool_calls) + 1 - ti]
           r == IF DecodeRaises(tc.arguments)
                THEN Exec(TRUE, "maximum recursion depth exceeded", "none", 0, FALSE)
                ELSE ExecuteTool(tc.name, DecodeArguments(tc.arguments), env)
       IN  /\ last_exec' = r
           /\ IF r.hangs
              THEN /\ pc' = "hung"
                   /\ UNCHANGED <<messages, ti>>
              ELSE IF r.raised
              THEN /\ pc' = AfterError(r.text)
                   /\ UNCHANGED <<messages, ti>>
              ELSE /\ messages' = Append(messages, ToolResultMessage(tc.id, r.text))
                   /\ ti' = ti + 1
                   /\ pc' = IF ti = Len(tool_calls) THEN "request" ELSE "executing"
    /\ UNCHANGED <<svars, mvars, session, tools, tool_calls, requests, sent>>

\* lines 162-170: one iteration of "for tool_call in tool_calls"; an exception
\* of execute_tool is caught at line 180 and ends the turn
ExecuteToolCall(env) ==
    /\ pc = "executing"
    /\ LET tc == tool_calls[ti]
           r == IF DecodeRaises(tc.arguments)
                THEN Exec(TRUE, "maximum recursion depth exceeded", "none", 0, FALSE)
                ELSE ExecuteTool(tc.name, DecodeArguments(tc.arguments), env)
       IN  /\ last_exec' = r
           /\ IF r.hangs
              THEN /\ pc' = "hung"
                   /\ UNCHANGED <<messages, ti>>
              ELSE IF r.raised
              THEN /\ pc' = AfterError(r.text)
                   /\ UNCHANGED <<messages, ti>>
              ELSE /\ messages' = Append(messages, ToolResultMessage(tc.id, r.text))
                   /\ ti' = ti + 1
                   /\ pc' = IF ti = Len(tool_calls) THEN "request" ELSE "executing"
    /\ UNCHANGED <<svars, mvars, session, tools, tool_calls, requests, sent>>

\* ChatSession.run reads the next line once process_message has returned
AtPrompt == session.exists /\ pc \in {"idle", "done", "aborted"}

\* /clear with reset_messages only
ClearWithoutSystemPrompt ==
    /\ AtPrompt
    /\ messages' = <<>>
    /\ UNCHANGED <<svars, mvars, session, pc, tools, tool_calls, ti, requests, sent, last_exec>>

\* cli.py 284-287: /clear
Clear ==
    /\ AtPrompt
    /\ messages' = <<SystemMessage(SystemPrompt)>>
    /\ UNCHANGED <<svars, mvars, session, pc, tools, tool_calls, ti, requests, sent, last_exec>>

\* the skill messages of the conversation: the system messages after the first
SkillLoads == Len(SelectSeq(Tail(messages), LAMBDA m : m.role = "system"))

\* /skill name with the skill text rewritten into the system prompt message
LoadSkillIntoSystemPrompt(found, content) ==
    /\ AtPrompt
    /\ SkillLoads < MaxSkillLoads
    /\ IF found /\ messages # <<>>
       THEN messages' = [messages EXCEPT ![1].content = content]
       ELSE UNCHANGED messages
    /\ UNCHANGED <<svars, mvars, session, pc, tools, tool_calls, ti, requests, sent, last_exec>>

\* cli.py 298-301 and 243-252: /skill name, where get_skill_content finds
\* the text `content` or finds nothing
LoadSkill(found, content) ==
    /\ AtPrompt
    /\ SkillLoads < MaxSkillLoads
    /\ IF found
       THEN messages' = Append(messages, SystemMessage(content))
       ELSE UNCHANGED messages
    /\ UNCHANGED <<svars, mvars, session, pc, tools, tool_calls, ti, requests, sent, last_exec>>

\* config.py 71-96: the providers get_provider_config knows
KnownProviders == {"openai", "gemini", "ollama", "custom"}

\* cli.py 308-310 and 183-196: /switch provider; config.provider is assigned
\* before LLMClient.__init__ looks the provider up and raises ValueError
SwitchProvider(provider) ==
    /\ AtPrompt
    /\ IF provider \in KnownProviders
       THEN /\ session' = [session EXCEPT !.config_provider = provider,
                                          !.provider_name = provider]
            /\ messages' = <<SystemMessage(SystemPrompt)>>
       ELSE /\ session' = [session EXCEPT !.config_provider = provider]
            /\ UNCHANGED messages
    /\ UNCHANGED <<svars, mvars, pc, tools, tool_calls, ti, requests, sent, last_exec>>

----------------------------------------------------------------------------
(* LLMClient.chat (llm_client.py 77-113, 242-262)                           *)

\* one round of a turn as the outside world supplies it: the stream the
\* model answers the round's request with, and what the providers and the
\* subprocess do for the tool calls of the round
Round(stream, env) == [stream |-> stream, env |-> env]

\* how a run of chat() ended: "returned", or "raised" when an exception left
\* it; "starved" when the script has no response for its next request
ChatEnd(msgs, n, ended) == [messages |-> msgs, requests |-> n, ended |-> ended]

NoChat ==
    [given |-> FALSE, script |-> <<>>,
     executor |-> ChatEnd(<<>>, 0, "none"), bare |-> ChatEnd(<<>>, 0, "none")]

\* lines 254-262: for tool_call in tool_calls from position i on, with a tool
\* executor that dispatches as execute_tool does and returns the dispatch's
\* result; json.loads falls back to {} on JSONDecodeError only, and an
\* exception of the decoder or of the executor leaves the loop
RECURSIVE ExecuteToolCalls(_, _, _, _)
ExecuteToolCalls(msgs, calls, i, env) ==
    IF i > Len(calls) THEN [messages |-> msgs, raised |-> FALSE]
    ELSE IF DecodeRaises(calls[i].arguments) THEN [messages |-> msgs, raised |-> TRUE]
    ELSE LET r == DispatchTool(calls[i].name, DecodeArguments(calls[i].arguments), env)
         IN  IF r.raised \/ r.hangs THEN [messages |-> msgs, raised |-> TRUE]
             ELSE ExecuteToolCalls(Append(msgs, ToolResultMessage(calls[i].id, r.text)),
                                   calls, i + 1, env)

\* lines 97-113 with a tool executor: the k-th pass of "while True"
RECURSIVE ChatLoop(_, _, _)
ChatLoop(msgs, script, k) ==
    IF k > Len(script) THEN ChatEnd(msgs, k - 1, "starved")
    ELSE LET after == Append(msgs, AssistantMsgOf(script[k].stream))
         IN  IF ~HasPendingToolCalls(after) THEN ChatEnd(after, k, "returned")
             ELSE LET batch == ExecuteToolCalls(after, ToolCallsOf(Last(after)), 1,
                                                script[k].env)
                  IN  IF batch.raised THEN ChatEnd(batch.messages, k, "raised")
                      ELSE ChatLoop(batch.messages, script, k + 1)

\* lines 95-113: chat(user_message, tools, tool_executor)
ChatWithExecutor(msgs, user_message, script) ==
    ChatLoop(Append(msgs, UserMessage(user_message)), script, 1)

\* lines 95-113: chat(user_message, tools) with tool_executor None: line 110
\* is false and the loop breaks after its first pass
ChatWithoutExecutor(msgs, user_message, script) ==
    ChatEnd(Append(Append(msgs, UserMessage(user_message)), AssistantMsgOf(script[1].stream)),
            1, "returned")

\* a client that holds the session's conversation is run through chat() on
\* `script`, with and without a tool executor
Chat(user_message, script) ==
    /\ session.exists
    /\ pc = "idle"
    /\ ~chat.given
    /\ chat' = [given |-> TRUE, script |-> script,
                executor |-> ChatWithExecutor(messages, user_message, script),
                bare |-> ChatWithoutExecutor(messages, user_message, script)]
    /\ UNCHANGED <<messages, chunks, full_content, tool_calls_data, yielded, spc, response,
                   mvars, tvars>>

----------------------------------------------------------------------------

(* The fragments the stream specification draws from                        *)

Slots == 0..1

TcDelta(i, id, hf, n, a) ==
    [index |-> i, id |-> id, has_function |-> hf, name |-> n, arguments |-> a]

StreamDeltas ==
    UNION {{TcDelta(i, "c1", TRUE, "t", ""),
            TcDelta(i, "c2", FALSE, "", ""),
            TcDelta(i, "", TRUE, "u", ""),
            TcDelta(i, "", TRUE, "", "{"),
            TcDelta(i, "", TRUE, "", "}"),
            TcDelta(i, "", TRUE, "", "")} : i \in Slots}

Chunk(hc, c, tcs) == [has_choices |-> hc, content |-> c, tool_calls |-> tcs]

StreamChunks ==
    {Chunk(FALSE, "", <<>>), Chunk(TRUE, "", <<>>),
     Chunk(TRUE, "he", <<>>), Chunk(TRUE, "y", <<>>),
     Chunk(TRUE, "ok", <<TcDelta(1, "c2", TRUE, "u", "{")>>),
     Chunk(TRUE, "", <<TcDelta(1, "c2", TRUE, "u", "{"), TcDelta(0, "c1", TRUE, "t", "}")>>)}
    \cup {Chunk(TRUE, "", <<d>>) : d \in StreamDeltas}

----------------------------------------------------------------------------
(* Initial states and specifications                                        *)

\* the mcpServers object of the configuration file, in file order
Configs == {<<"a", "b">>, <<"a", "">>, <<"", "b">>}

Catalogs == {<<Tool("t", None, None)>>, <<Tool("u", "d", "s"), Tool("t", "", "{}")>>}

ToolNames == {"t", "x"}

Reply(ok, parts, error) == [ok |-> ok, parts |-> parts, error |-> error]

Replies == {Reply(TRUE, <<TextPart("r")>>, ""), Reply(FALSE, <<>>, "boom")}

\* the parts a provider's result is made of
ResultParts ==
    {TextPart("r"), TextPart(""), BinaryPart("image/png", "iVBORw0KGgo="),
     BinaryPart("audio/wav", "UklGRg==")}

\* the results of up to MaxParts parts, and the failures
PartReplies ==
    {Reply(TRUE, parts, "") : parts \in UNION {[1..n -> ResultParts] : n \in 0..MaxParts}}
    \cup {Reply(FALSE, <<>>, "boom")}

NoResult == [raised |-> FALSE, session |-> 0, text |-> ""]

\* LLMClient.__init__ (llm_client.py 34), no stream running
StreamIdle ==
    /\ chunks = <<>>
    /\ full_content = ""
    /\ tool_calls_data = <<>>
    /\ yielded = <<>>
    /\ spc = "idle"
    /\ response = NoResponse
    /\ chat = NoChat

\* MCPManager.__init__ (mcp_manager.py 70-74)
ManagerNew ==
    /\ connections = <<>>
    /\ tool_to_server = <<>>
    /\ exit_stack = <<>>
    /\ mpc = "new"
    /\ closed = <<>>
    /\ ca = [pc |-> "idle", i |-> 1, ret |-> {}]
    /\ attempts = <<>>
    /\ last_call = [called |-> FALSE, name |-> "", reply |-> Reply(TRUE, <<>>, ""),
                    result |-> NoResult]
    /\ last_tools = [ret |-> <<>>, fresh |-> FALSE, again |-> FALSE]

\* no ChatSession has been constructed
NoSession ==
    /\ session = [exists |-> FALSE, mcp_manager |-> FALSE, sandbox_enabled |-> FALSE,
                  config_provider |-> "openai", provider_name |-> ""]
    /\ pc = "idle"
    /\ tools = <<>>
    /\ tool_calls = <<>>
    /\ ti = 1
    /\ requests = 0
    /\ sent = Request(<<>>, <<>>)
    /\ last_exec = Exec(FALSE, "", "none", 0, FALSE)

StreamInit ==
    /\ messages = <<UserMessage("hi")>>
    /\ StreamIdle
    /\ ManagerNew
    /\ servers = <<>>
    /\ NoSession

StreamNext ==
    \/ StreamOpen
    \/ StreamFail
    \/ \E chunk \in StreamChunks : StreamChunk(chunk)
    \/ StreamEnd

SpecStream == StreamInit /\ [][StreamNext]_vars

MgrInit ==
    /\ messages = <<>>
    /\ StreamIdle
    /\ ManagerNew
    /\ servers \in Configs
    /\ NoSession

\* main.py 31-36: a direct connect_server names a configured server
DirectOutcomes == {"no_context", "handshake_failed", "ok"}

MgrNext ==
    \/ Enter
    \/ \E n \in Range(servers), c \in Catalogs, o \in DirectOutcomes :
          ConnectServerCall(n, c, o)
    \/ ConnectAllStart
    \/ \E c \in Catalogs, o \in ConnectOutcomes :
          \E e \in ConnectErrors(o) : ConnectAllStep(c, o, e)
    \/ GetOpenAITools
    \/ \E n \in ToolNames, r \in Replies : ManagerCallTool(n, r)

SpecMgr == MgrInit /\ [][MgrNext]_vars

ScopeCatalogs == {<<Tool("t", None, None)>>}

ScopeInit ==
    /\ messages = <<>>
    /\ StreamIdle
    /\ ManagerNew
    /\ servers = <<"a", "b">>
    /\ NoSession

ScopeNext ==
    \/ Enter
    \/ \E n \in Range(servers), c \in ScopeCatalogs, o \in DirectOutcomes :
          ConnectServerCall(n, c, o)
    \/ ConnectAllStart
    \/ \E c \in ScopeCatalogs, o \in ConnectOutcomes :
          \E e \in ConnectErrors(o) : ConnectAllStep(c, o, e)
    \/ ExitStart
    \/ \E ok \in BOOLEAN : ExitStep(ok)

SpecScope == ScopeInit /\ [][ScopeNext]_vars

\* line 85: every close the exit stack awaits returns or raises, so that
\* AsyncExitStack.__aexit__ goes on to the next context
ScopeClose == \E ok \in BOOLEAN : ExitStep(ok)

SpecScopeLive == ScopeInit /\ [][ScopeNext]_vars /\ WF_vars(ScopeClose)

\* one provider is connected and its tools are called
ConnInit ==
    /\ messages = <<>>
    /\ StreamIdle
    /\ ManagerNew
    /\ servers = <<"a">>
    /\ NoSession

ConnNext ==
    \/ Enter
    \/ ConnectAllStart
    \/ \E c \in ScopeCatalogs : ConnectAllStep(c, "ok", "")
    \/ \E n \in ToolNames, r \in PartReplies : ManagerCallTool(n, r)

SpecConn == ConnInit /\ [][ConnNext]_vars

\* the provider of the chat sessions exports t and a run_command of its own
TurnCatalogs == {<<Tool("t", None, None), Tool(SANDBOX_TOOL_NAME, "", "{}")>>}

TurnConnectOutcomes == {"spawn_failed", "ok"}

Call(i, id, n, a) == Chunk(TRUE, "", <<TcDelta(i, id, TRUE, n, a)>>)

\* the streams the model provider answers with in the chat sessions
Responses ==
    {<<Chunk(TRUE, "hi", <<>>)>>,
     <<Call(0, "c1", "t", "{}")>>,
     <<Call(1, "c2", "t", "{"), Call(0, "c1", "x", "{bad"), Call(1, "", "", "}")>>,
     <<Call(0, "c1", SANDBOX_TOOL_NAME, "{\"command\":"), Call(0, "", "", "\"ls\"}")>>,
     <<Call(0, "c1", SANDBOX_TOOL_NAME, "[]")>>,
     <<Call(0, "", "t", "{}"), Call(1, "", "x", "{}")>>,
     <<Call(0, "c1", "x", "{\"path\":\"[/etc]\"}"), Call(1, "c2", "t", "{}")>>,
     <<Chunk(TRUE, "see [/INST]", <<>>)>>,
     <<Call(0, "c1", "x", DeepNesting), Call(1, "c2", "t", "{}")>>,
     <<Call(0, "c1", "t", "{bad"), Call(1, "c2", SANDBOX_TOOL_NAME, "")>>,
     <<Call(0, "c1", SANDBOX_TOOL_NAME, "{\"command\":\"ls [/etc]\"}")>>}

\* the model has called tools for as many rounds as this model follows it:
\* the stream of the last request carries text only
TurnStreams ==
    IF requests + 1 >= MaxRequests
    THEN {s \in Responses : ToolCallsOf(AssistantMsgOf(s)) = <<>>}
    ELSE Responses

\* the messages of the exceptions a model request or its stream fails with
RequestErrors == {"boom", "lost [/data]"}

Runs == {Exited(0, "f", ""), Exited(1, "", "e")}

Env(reply, run) == [reply |-> reply, run |-> run]

Envs ==
    {Env(r, Exited(0, "f", "")) : r \in Replies \cup {Reply(FALSE, <<>>, "lost [/data]")}}
    \cup {Env(Reply(TRUE, <<TextPart("r")>>, ""), u) : u \in Runs}

Init ==
    /\ messages = <<>>
    /\ StreamIdle
    /\ ManagerNew
    /\ servers = <<"a">>
    /\ NoSession

Next ==
    \/ (~session.exists /\ Enter)
    \/ (mpc = "open" /\ ConnectAllStart)
    \/ \E c \in TurnCatalogs, o \in TurnConnectOutcomes :
          \E e \in ConnectErrors(o) : ConnectAllStep(c, o, e)
    \/ \E mgr \in BOOLEAN, sandbox \in BOOLEAN : NewSession(mgr, sandbox)
    \/ ProcessMessage("hi")
    \/ \E stream \in TurnStreams : StreamResponse(stream)
    \/ \E e \in RequestErrors : StreamResponseFails(e)
    \/ CheckPending
    \/ \E env \in Envs : ExecuteToolCall(env)

Spec == Init /\ [][Next]_vars

\* the providers are connected, the merged catalog is read, and chat sessions
\* whose model answers with text start their turns
ToolsInit ==
    /\ messages = <<>>
    /\ StreamIdle
    /\ ManagerNew
    /\ servers = <<"a", "b">>
    /\ NoSession

ToolsNext ==
    \/ Enter
    \/ ConnectAllStart
    \/ \E c \in Catalogs, o \in TurnConnectOutcomes :
          ConnectAllStep(c, o, IF o = "ok" THEN "" ELSE "boom")
    \/ GetOpenAITools
    \/ \E mgr \in BOOLEAN, sandbox \in BOOLEAN : NewSession(mgr, sandbox)
    \/ ProcessMessage("hi")
    \/ StreamResponse(<<Chunk(TRUE, "hi", <<>>)>>)
    \/ CheckPending

SpecTools == ToolsInit /\ [][ToolsNext]_vars

\* the streams of a model that calls the local executor
SandboxResponses ==
    {<<Chunk(TRUE, "hi", <<>>)>>,
     <<Call(0, "c1", SANDBOX_TOOL_NAME, "{\"command\":\"ls\"}")>>,
     <<Call(0, "c1", SANDBOX_TOOL_NAME, "{\"command\":\"ls\",\"timeout\":5}")>>,
     <<Call(0, "c1", SANDBOX_TOOL_NAME, "{\"command\":\"ls\",\"timeout\":null}")>>,
     <<Call(0, "c1", SANDBOX_TOOL_NAME, "{}")>>}

\* what the command does: it exits with or without output on either stream,
\* it outlives the timeout, or it cannot be started
SandboxRuns ==
    {Exited(c, o, e) : c \in {0, 1}, o \in {"", "f"}, e \in {"", "w"}}
    \cup {TimedOut, StartFailed("No such file or directory")}

\* the model calls the local executor in every round but the last one there is
SandboxStreams ==
    IF requests + 1 >= MaxRequests THEN {<<Chunk(TRUE, "hi", <<>>)>>} ELSE SandboxResponses

\* a chat session with the local executor and no manager
SandboxInit ==
    /\ messages = <<>>
    /\ StreamIdle
    /\ ManagerNew
    /\ servers = <<>>
    /\ NoSession

SandboxNext ==
    \/ NewSession(FALSE, TRUE)
    \/ ProcessMessage("hi")
    \/ \E stream \in SandboxStreams : StreamResponse(stream)
    \/ CheckPending
    \/ \E u \in SandboxRuns : ExecuteToolCall(Env(Reply(TRUE, <<>>, ""), u))

SpecSandbox == SandboxInit /\ [][SandboxNext]_vars

\* the streams of the model in the interactive session
ChatResponses ==
    {<<Chunk(TRUE, "hi", <<>>)>>,
     <<Call(0, "c1", "t", "{}")>>,
     <<Call(0, "c1", "t", "{}"), Call(1, "c2", "x", "{}")>>}

\* the providers named after /switch
SwitchNames == {"gemini", "nope"}

\* an interactive session without manager and local executor: turns and
\* the commands /clear, /skill and /switch between them
ChatInit ==
    /\ messages = <<>>
    /\ StreamIdle
    /\ ManagerNew
    /\ servers = <<>>
    /\ NoSession

ChatNext ==
    \/ NewSession(FALSE, FALSE)
    \/ ProcessMessage("hi")
    \/ \E stream \in ChatResponses : StreamResponse(stream)
    \/ StreamResponseFails("boom")
    \/ CheckPending
    \/ ExecuteToolCall(Env(Reply(TRUE, <<>>, ""), NoRun))
    \/ Clear
    \/ \E found \in BOOLEAN : LoadSkill(found, "skill text")
    \/ \E provider \in SwitchNames : SwitchProvider(provider)

SpecChat == ChatInit /\ [][ChatNext]_vars

\* the streams of a model whose requests all complete
LiveResponses ==
    {<<Chunk(TRUE, "hi", <<>>)>>,
     <<Call(0, "c1", "t", "{}")>>,
     <<Call(0, "c1", SANDBOX_TOOL_NAME, "{\"command\":\"ls\"}"), Call(1, "c2", "t", "{}")>>,
     <<Chunk(TRUE, "ok", <<TcDelta(0, "c1", TRUE, "t", "{}")>>)>>}

\* the model answers without tool calls after finitely many rounds: at the
\* latest in the last request there is
LiveStreams ==
    IF requests + 1 >= MaxRequests THEN {<<Chunk(TRUE, "hi", <<>>)>>} ELSE LiveResponses

\* every run exits; one of them prints a path in brackets
LiveRuns == {Exited(0, "f", ""), Exited(1, "", "e"), Exited(0, "[/etc]", "")}

LiveInit ==
    /\ messages = <<>>
    /\ StreamIdle
    /\ ManagerNew
    /\ servers = <<>>
    /\ NoSession

LiveRequest == \E stream \in LiveStreams : StreamResponse(stream)

LiveDispatch == \E u \in LiveRuns : ExecuteToolCall(Env(Reply(TRUE, <<>>, ""), u))

LiveNext ==
    \/ NewSession(FALSE, TRUE)
    \/ ProcessMessage("hi")
    \/ LiveRequest
    \/ CheckPending
    \/ LiveDispatch

\* every awaited request and dispatch completes, and the coroutine of
\* process_message is resumed when it does
SpecLive ==
    /\ LiveInit
    /\ [][LiveNext]_vars
    /\ WF_vars(LiveRequest)
    /\ WF_vars(CheckPending)
    /\ WF_vars(LiveDispatch)

\* the rounds in which the model calls tools, and the streams that end a turn
TwinCallStreams ==
    {<<Call(0, "c1", "t", "{}")>>,
     <<Call(0, "c1", "x", "{bad"), Call(1, "c2", SANDBOX_TOOL_NAME, "{\"command\":\"ls\"}")>>,
     <<Call(0, "c1", SANDBOX_TOOL_NAME, "[]")>>}

TwinTextStreams == {<<Chunk(TRUE, "hi", <<>>)>>, <<Chunk(TRUE, "see [/INST]", <<>>)>>}

TwinEnvs ==
    {Env(Reply(TRUE, <<TextPart("r")>>, ""), Exited(0, "f", "")),
     Env(Reply(TRUE, <<TextPart("r")>>, ""), Exited(0, "[/etc]", ""))}

TwinCallRounds == {Round(s, e) : s \in TwinCallStreams, e \in TwinEnvs}

\* the scripts of a turn: tool rounds, then the round whose answer is text
TwinScripts ==
    {Append(rounds, Round(text, Env(Reply(TRUE, <<>>, ""), NoRun))) :
        rounds \in UNION {[1..n -> TwinCallRounds] : n \in 0..(MaxRequests - 1)},
        text \in TwinTextStreams}

TwinInit ==
    /\ messages = <<>>
    /\ StreamIdle
    /\ ManagerNew
    /\ servers = <<>>
    /\ NoSession

\* process_message is given the responses and the tool results of the script
\* that chat() was run on
TwinNext ==
    \/ NewSession(FALSE, TRUE)
    \/ \E script \in TwinScripts : Chat("hi", script)
    \/ (chat.given /\ requests = 0 /\ pc = "idle" /\ ProcessMessage("hi"))
    \/ (requests < Len(chat.script) /\ StreamResponse(chat.script[requests + 1].stream))
    \/ CheckPending
    \/ (requests \in 1..Len(chat.script) /\ ExecuteToolCall(chat.script[requests].env))

SpecTwin == TwinInit /\ [][TwinNext]_vars

\* the fields of a tool call of a response: present, empty or None
CallIds == {"c1", "", None}

CallNames == {"t", None}

CallArguments == {"{}", None}

ResponseCalls == {ToolCall(i, n, a) : i \in CallIds, n \in CallNames, a \in CallArguments}

\* the responses of up to MaxCalls tool calls, with or without text
WholeResponses ==
    {Response(c, tcs) : c \in {"hi", "", None},
                        tcs \in UNION {[1..n -> ResponseCalls] : n \in 0..MaxCalls}}

\* one request answered whole, through _get_response or as a stream of one event
WholeNext ==
    \/ \E resp \in WholeResponses : GetResponse(resp)
    \/ StreamOpen
    \/ \E resp \in WholeResponses : StreamSingle(resp)
    \/ StreamEnd

SpecWhole == StreamInit /\ [][WholeNext]_vars

----------------------------------------------------------------------------
(* Stream aggregator properties                                             *)

\* every tool-call fragment that arrived, in arrival order
ArrivedDeltas == Flatten([i \in 1..Len(chunks) |-> chunks[i].tool_calls])

ArrivedSlots == {ArrivedDeltas[i].index : i \in 1..Len(ArrivedDeltas)}

\* the argument-text fragments of slot i, in arrival order
ArgFragmentsOf(i) ==
    LET mine == SelectSeq(ArrivedDeltas, LAMBDA d : d.index = i /\ d.has_function)
    IN  [k \in 1..Len(mine) |-> mine[k].arguments]

\* C1: the assistant message appended at the end of a stream lists one
\* tool-call request per slot that appeared, in ascending slot order, and the
\* argument text of each is the concatenation, in arrival order, of exactly
\* the argument-text fragments of its slot.
C1_SortedBySlotAndConcatenated ==
    spc = "done" =>
        LET m == Last(messages)
            ord == SortedSeq(ArrivedSlots)
        IN  /\ m.role = "assistant"
            /\ Len(m.tool_calls) = Cardinality(ArrivedSlots)
            /\ \A k \in 1..Len(m.tool_calls) :
                   m.tool_calls[k].arguments = Concat(ArgFragmentsOf(ord[k]))

\* slot 1 appeared before slot 0, each with arguments in several pieces
C1_Witness ==
    /\ spc = "done"
    /\ Len(ArrivedDeltas) >= 3
    /\ ArrivedDeltas[1].index = 1
    /\ ArrivedSlots = {0, 1}
    /\ Last(messages).tool_calls[1].arguments = "}"
    /\ Last(messages).tool_calls[2].arguments = "{}"

\* the text fragments that arrived, in arrival order
ArrivedTexts ==
    SelectSeq([i \in 1..Len(chunks) |-> IF chunks[i].has_choices THEN chunks[i].content ELSE ""],
              LAMBDA c : c # "")

\* C16: the assistant message built from a stream without a text fragment has
\* a content that is present and empty, and the one built from a stream
\* without a tool-call fragment has an empty list of tool-call requests.
C16_EmptyPartsArePresentAndEmpty ==
    spc = "done" =>
        LET m == Last(messages)
        IN  /\ m.role = "assistant"
            /\ ArrivedTexts = <<>> => m.has_content /\ m.content = ""
            /\ ArrivedDeltas = <<>> => ToolCallsOf(m) = <<>>

\* C24: the tool-call requests of the assistant message built from a stream
\* have pairwise distinct identifiers, whatever the fragments were.
C24_IdentifiersDistinct ==
    spc = "done" =>
        LET reqs == ToolCallsOf(Last(messages))
        IN  \A i, j \in 1..Len(reqs) : i # j => reqs[i].id # reqs[j].id

\* the last non-empty text of a sequence of texts, "" when there is none
LastNonEmpty(texts) ==
    LET carried == SelectSeq(texts, LAMBDA t : t # "")
    IN  IF carried = <<>> THEN "" ELSE Last(carried)

\* the identifiers, and the names, carried by the fragments of slot i so far
IdsOf(i) ==
    LET mine == SelectSeq(ArrivedDeltas, LAMBDA d : d.index = i)
    IN  [k \in 1..Len(mine) |-> mine[k].id]

NamesOf(i) ==
    LET mine == SelectSeq(ArrivedDeltas, LAMBDA d : d.index = i)
    IN  [k \in 1..Len(mine) |-> IF mine[k].has_function THEN mine[k].name ELSE ""]

\* C28: at every point of a stream the identifier and the tool name kept for
\* a slot are the last non-empty ones carried by the fragments of that slot
\* so far, and "" when none carried one, so that an empty or missing value
\* never clears an earlier one; the request built for the slot has these.
C28_LastNonEmptyIdAndName ==
    /\ spc \in {"loop", "done"} =>
          /\ Keys(tool_calls_data) = ArrivedSlots
          /\ \A i \in ArrivedSlots :
                /\ Lookup(tool_calls_data, i).id = LastNonEmpty(IdsOf(i))
                /\ Lookup(tool_calls_data, i).name = LastNonEmpty(NamesOf(i))
    /\ spc = "done" =>
          LET reqs == ToolCallsOf(Last(messages))
              ord == SortedSeq(ArrivedSlots)
          IN  /\ Len(reqs) = Len(ord)
              /\ \A k \in 1..Len(reqs) :
                    /\ reqs[k].id = LastNonEmpty(IdsOf(ord[k]))
                    /\ reqs[k].name = LastNonEmpty(NamesOf(ord[k]))

\* slot 0 got the identifier c1, then c2, then a fragment without identifier
\* or name; slot 1 never got either
C28_Witness ==
    /\ spc = "done"
    /\ IdsOf(0) = <<"c1", "c2", "">>
    /\ NamesOf(0) = <<"t", "", "">>
    /\ Last(messages).tool_calls[1].id = "c2"
    /\ Last(messages).tool_calls[1].name = "t"

\* an event without choices, or whose delta has neither text nor tool calls
NoPayload(chunk) ==
    \/ ~chunk.has_choices
    \/ chunk.content = "" /\ chunk.tool_calls = <<>>

\* C30: during a streaming pass the chunks given to the caller so far are
\* exactly the non-empty text fragments that arrived, in arrival order; the
\* assistant message built at the end has their concatenation as its text
\* (and no content when there was none); the conversation changes only at the
\* end of the stream, by the append of that one assistant message; and an
\* event without payload changes none of the accumulated values.
C30_ChunksAreTextFragments ==
    /\ [](spc \in {"loop", "done"} =>
             /\ yielded = ArrivedTexts
             /\ full_content = Concat(yielded))
    /\ [](spc = "done" =>
             LET m == Last(messages)
             IN  /\ m.role = "assistant"
                 /\ m.content = Concat(yielded)
                 /\ m.has_content = (yielded # <<>>))
    /\ [][/\ spc = "loop" /\ spc' = "done" =>
                /\ Len(messages') = Len(messages) + 1
                /\ SubSeq(messages', 1, Len(messages)) = messages
                /\ Last(messages').role = "assistant"
                /\ chunks' = chunks
          /\ ~(spc = "loop" /\ spc' = "done") => messages' = messages
          /\ spc = "loop" /\ Len(chunks') = Len(chunks) + 1 /\ NoPayload(Last(chunks')) =>
                UNCHANGED <<full_content, tool_calls_data, yielded, messages>>]_vars

\* "he", an event without payload and "y" arrived: two chunks were given to
\* the caller and the message says "hey"
C30_Witness ==
    /\ spc = "done"
    /\ Len(chunks) = 3
    /\ chunks[1].content = "he" /\ NoPayload(chunks[2]) /\ chunks[3].content = "y"
    /\ yielded = <<"he", "y">>
    /\ Last(messages).content = "hey"
    /\ Len(messages) = 2

\* C31: a response that arrives whole gives the same assistant message
\* through _get_response as through _stream_response reading it as the one
\* event of a stream: the same content presence and content, the same
\* tool-call identifiers, names and argument texts, in the same order.
C31_WholeResponseSameMessage ==
    /\ spc = "got" =>
          Last(messages) = AssistantMsgOf(<<AsSingleEvent(response)>>)
    /\ spc = "done" /\ response.given =>
          Last(messages) = GetResponseMsg(response)

----------------------------------------------------------------------------
(* Turn engine properties                                                   *)

\* an assistant message that carries tool-call requests
IsRequesting(m) == m.role = "assistant" /\ ToolCallsOf(m) # <<>>

\* the assistant message whose batch the engine has taken up and not finished
BatchInProgress(p) ==
    \/ pc = "check" /\ p = Len(messages)
    \/ pc = "executing" /\ p = Len(messages) - (ti - 1)

\* the N messages after msgs[p] are tool messages, the i-th answering the
\* i-th request, and no further tool message follows them
AnsweredInOrder(msgs, p) ==
    LET reqs == msgs[p].tool_calls
        N == Len(reqs)
    IN  /\ p + N <= Len(msgs)
        /\ \A i \in 1..N :
              /\ msgs[p + i].role = "tool"
              /\ msgs[p + i].tool_call_id = reqs[i].id
        /\ p + N < Len(msgs) => msgs[p + N + 1].role # "tool"

DistinctBackReferences(msgs, p) ==
    LET N == Len(msgs[p].tool_calls)
    IN  p + N <= Len(msgs) =>
            \A i, j \in 1..N :
                i # j => msgs[p + i].tool_call_id # msgs[p + j].tool_call_id

\* C2: every assistant message with N >= 1 tool-call requests that the engine
\* is through with is directly followed by exactly N tool messages, the i-th
\* back-referencing the i-th request, the N back-references pairwise distinct.
C2_BatchAnsweredInOrderDistinct ==
    \A p \in 1..Len(messages) :
        IsRequesting(messages[p]) /\ ~BatchInProgress(p) =>
            AnsweredInOrder(messages, p) /\ DistinctBackReferences(messages, p)

\* the N messages after msgs[p] are tool messages, each answering a request
\* of msgs[p], and no further tool message follows them
AnsweredBlock(msgs, p) ==
    LET reqs == msgs[p].tool_calls
        N == Len(reqs)
    IN  /\ p + N <= Len(msgs)
        /\ \A i \in 1..N :
              /\ msgs[p + i].role = "tool"
              /\ \E k \in 1..N : msgs[p + i].tool_call_id = reqs[k].id
        /\ p + N < Len(msgs) => msgs[p + N + 1].role # "tool"

\* C3: whenever a model request is about to be issued, every assistant message
\* of the conversation that carries tool-call requests is directly followed by
\* a contiguous block of tool messages, one per request.
C3_NoUnansweredCallsSent ==
    pc = "request" =>
        \A p \in 1..Len(messages) :
            IsRequesting(messages[p]) => AnsweredBlock(messages, p)

\* one step of a turn as the REQUEST, CHECK_PENDING, EXECUTING, DONE machine allows it
C4_Step ==
    /\ pc = "request" => pc' \in {"check", "aborted", "escaped"}
    /\ pc = "check" =>
          /\ pc' \in {"done", "executing"}
          /\ (pc' = "done") = (ToolCallsOf(Last(messages)) = <<>>)
    /\ pc = "executing" =>
          /\ pc' \in {"executing", "request"}
          /\ pc' = "request" =>
                AnsweredInOrder(messages', Len(messages') - Len(tool_calls))
    /\ pc' = "done" =>
          /\ Last(messages').role = "assistant"
          /\ ToolCallsOf(Last(messages')) = <<>>

\* C4: a turn follows REQUEST -> STREAMING -> CHECK_PENDING -> (EXECUTING ->
\* REQUEST | DONE): after the assistant message is appended the engine goes to
\* DONE exactly when the message has no tool-call request, otherwise it
\* executes the whole batch and only then issues the next request; a turn that
\* is done leaves an assistant message without tool calls last.
C4_TurnStateMachine == [][C4_Step]_vars

ProviderToolNames == {AllTools[i].name : i \in 1..Len(AllTools)}

\* the name is in no connected provider's catalog and is not the enabled
\* local executor's
NotFoundCase(name) ==
    /\ ~(name = SANDBOX_TOOL_NAME /\ session.sandbox_enabled)
    /\ ~(session.mcp_manager /\ name \in ProviderToolNames)

NotFoundText(name) ==
    IF session.mcp_manager THEN "Error: Tool '" \o name \o "' not found"
    ELSE "Error: No MCP servers connected and tool is not run_command"

\* C5: a request whose name no connected provider exports and that is not the
\* enabled local executor's gets a tool message with the not-found text; the
\* turn is not aborted, and the engine goes on to the next request of the
\* batch or, after the last one, to the next model request.
C5_UnknownToolIsAnswered ==
    [][pc = "executing" /\ NotFoundCase(tool_calls[ti].name) =>
          /\ messages' = Append(messages,
                 ToolResultMessage(tool_calls[ti].id,
                                   NotFoundText(tool_calls[ti].name)))
          /\ IF ti < Len(tool_calls) THEN pc' = "executing" /\ ti' = ti + 1
             ELSE pc' = "request"]_vars

\* C6: when the invoke of the owning provider connection fails, call_tool
\* raises nothing: the failure text becomes the tool message, the turn goes
\* on, and the routing table and the connection set are unchanged.
C6_InvokeFailureIsText ==
    [][pc = "executing" /\ last_exec'.route = "mcp" =>
          /\ ~last_exec'.raised
          /\ UNCHANGED <<connections, tool_to_server>>
          /\ last_exec'.failed =>
                /\ \E r \in Replies :
                      /\ ~r.ok
                      /\ messages' = Append(messages,
                             ToolResultMessage(tool_calls[ti].id,
                                 "Error calling tool '" \o tool_calls[ti].name
                                 \o "': " \o r.error))
                /\ IF ti < Len(tool_calls) THEN pc' = "executing" /\ ti' = ti + 1
                   ELSE pc' = "request"]_vars

\* C11: a request whose argument text is not a well-formed document has the
\* executor invoked with the empty argument set, gets its tool message, and
\* the turn is not aborted.
C11_ParseFailureIsEmptyArguments ==
    [][pc = "executing" /\ ~JsonLoads(tool_calls[ti].arguments).ok =>
          /\ \E env \in Envs :
                last_exec' = ExecuteTool(tool_calls[ti].name, JDict(<<>>), env)
          /\ ~last_exec'.raised
          /\ messages' = Append(messages,
                 ToolResultMessage(tool_calls[ti].id, last_exec'.text))
          /\ pc' \in {"executing", "request"}]_vars

\* C12: a call named run_command is dispatched to the local executor exactly
\* when the local executor is enabled; when it is disabled the call goes to
\* provider routing (a provider that exports run_command serves it, otherwise
\* it is answered with a not-found text); no other name reaches the local
\* executor.
C12_LocalExecutorOnlyWhenEnabled ==
    [][pc = "executing" =>
          LET name == tool_calls[ti].name
              named == name = SANDBOX_TOOL_NAME
          IN  /\ (last_exec'.route = "sandbox") = (named /\ session.sandbox_enabled)
              /\ named /\ ~session.sandbox_enabled /\ session.mcp_manager =>
                    /\ last_exec'.route = "mcp"
                    /\ IF name \in ProviderToolNames THEN last_exec'.session # 0
                       ELSE last_exec'.text = NotFoundText(name)
              /\ named /\ ~session.sandbox_enabled /\ ~session.mcp_manager =>
                    /\ last_exec'.route = "none"
                    /\ last_exec'.text = NotFoundText(name)]_vars

\* C13: when a model request or its stream fails, the turn is aborted, no
\* exception leaves process_message, and the conversation is what it was
\* before the failing request.
C13_RequestFailureKeepsConversation ==
    [][pc = "request" /\ pc' \notin {"request", "check"} =>
          /\ pc' = "aborted"
          /\ messages' = messages]_vars

\* while the batch is executed, the conversation ends with the assistant
\* message of the batch and the answers of its first ti - 1 requests
AnsweredPrefix ==
    /\ ti \in 1..Len(tool_calls)
    /\ Len(messages) >= ti
    /\ LET p == Len(messages) - (ti - 1)
       IN  /\ IsRequesting(messages[p])
           /\ messages[p].tool_calls = tool_calls
           /\ \A i \in 1..(ti - 1) :
                 /\ messages[p + i].role = "tool"
                 /\ messages[p + i].tool_call_id = tool_calls[i].id

\* C14: the requests of a batch are executed one at a time in ascending
\* position: request ti is dispatched when exactly the requests before it
\* have been answered, its dispatch either appends its tool message and moves
\* to the next position or ends the turn, and a model request is issued only
\* between batches, never by a step that executes a tool.
C14_OneAtATimeAscending ==
    [][/\ pc = "executing" =>
            /\ AnsweredPrefix
            /\ requests' = requests
            /\ \/ /\ messages' = Append(messages,
                                  ToolResultMessage(tool_calls[ti].id, last_exec'.text))
                  /\ ti' = ti + 1
                  /\ pc' = IF ti = Len(tool_calls) THEN "request" ELSE "executing"
               \/ /\ last_exec'.raised
                  /\ pc' \in {"aborted", "escaped"}
                  /\ messages' = messages /\ ti' = ti
       /\ requests' # requests =>
            /\ pc = "request"
            /\ last_exec' = last_exec
            /\ pc' # "executing"]_vars

\* a batch of two requests was executed to its end
C14_Witness ==
    /\ pc = "request"
    /\ Len(tool_calls) = 2 /\ ti = 3
    /\ Len(messages) >= 3
    /\ Last(messages).role = "tool"
    /\ Last(messages).tool_call_id = tool_calls[2].id
    /\ messages[Len(messages) - 1].tool_call_id = tool_calls[1].id
    /\ tool_calls[1].id # tool_calls[2].id

\* C15: a call that execute_tool hands to the local executor comes back as a
\* text result, whatever the value of its arguments and whatever the
\* subprocess does: no exception reaches the caller of execute_tool.
C15_LocalExecutorNeverRaises ==
    [][pc = "executing" /\ tool_calls[ti].name = SANDBOX_TOOL_NAME
          /\ session.sandbox_enabled =>
              /\ ~last_exec'.raised
              /\ last_exec'.route = "sandbox"
              /\ messages' = Append(messages,
                                    ToolResultMessage(tool_calls[ti].id, last_exec'.text))]_vars

\* C23: every step of the session leaves the conversation as it is, appends
\* one message at its end, or starts it again from empty with the system
\* prompt; no message that is in the conversation is changed or moved.
C23_ConversationAppendOrReset ==
    [][\/ messages' = messages
       \/ /\ Len(messages') = Len(messages) + 1
          /\ SubSeq(messages', 1, Len(messages)) = messages
       \/ messages' = <<SystemMessage(SystemPrompt)>>]_vars

\* after a switch of provider the new conversation holds a loaded skill, a
\* batch with its tool results, and a user message whose turn failed
C23_Witness ==
    /\ session.provider_name = "gemini"
    /\ pc = "aborted"
    /\ Len(messages) >= 7
    /\ messages[2].role = "system"
    /\ \E i \in 1..Len(messages) - 2 :
          IsRequesting(messages[i]) /\ Len(messages[i].tool_calls) = 2
          /\ messages[i + 1].role = "tool" /\ messages[i + 2].role = "tool"
    /\ Last(messages).role = "user"

\* C36: in a chat session the first message of the conversation is the
\* system-prompt message of the configuration, after construction and after
\* any turns, failed turns, skill loads, /clear and switches of provider.
C36_FirstMessageIsSystemPrompt ==
    session.exists =>
        /\ messages # <<>>
        /\ messages[1] = SystemMessage(SystemPrompt)

\* a provider was switched to, a skill was loaded, a turn failed and a switch
\* to an unknown provider was refused
C36_Witness ==
    /\ session.provider_name = "gemini"
    /\ session.config_provider = "nope"
    /\ pc = "aborted"
    /\ Len(messages) >= 3
    /\ messages[1] = SystemMessage(SystemPrompt)
    /\ messages[2] = SystemMessage("skill text")
    /\ Last(messages).role = "user"

\* process_message is between its first request and its end
InTurn == pc \in {"request", "check", "executing"}

\* C25: while a turn runs, no step changes the connection set, the routing
\* table or the tools list of the turn, which is the list the registry gives
\* at that moment; a tool invocation leaves the registry as it is; and every
\* model request of the turn carries that tools list.
C25_RegistryFrozenDuringTurn ==
    [][/\ InTurn =>
             /\ UNCHANGED <<connections, tool_to_server, tools>>
             /\ tools = TurnTools
       /\ pc = "executing" => UNCHANGED <<connections, tool_to_server, exit_stack, attempts>>
       /\ requests' # requests =>
             /\ sent'.tools = tools
             /\ sent'.has_tools = (tools # <<>>)]_vars

\* the second request of a turn was sent, after a tool call that a provider
\* served, with the tools of the provider and of the local executor
C25_Witness ==
    /\ requests >= 2
    /\ pc = "check"
    /\ Len(messages) >= 5
    /\ messages[Len(messages) - 1].role = "tool"
    /\ last_exec.route = "mcp" /\ last_exec.session # 0
    /\ connections # <<>>
    /\ Len(sent.tools) = 3
    /\ sent.tools = tools

\* C27: when every model request and every tool dispatch completes and the
\* model ends its rounds with an assistant message without tool calls, a turn
\* that has begun leads to DONE; and the engine ends a turn only from the
\* check of an assistant message that carries no tool calls, going on to
\* execute the batch whenever the message carries some.
C27_TurnReachesDone ==
    /\ (pc = "request") ~> (pc = "done")
    /\ [][/\ pc # "done" /\ pc' = "done" =>
                pc = "check" /\ ToolCallsOf(Last(messages')) = <<>>
          /\ pc = "check" /\ ToolCallsOf(Last(messages)) # <<>> =>
                pc' = "executing" /\ tool_calls' = Last(messages).tool_calls]_vars

\* the position of the last user message of msgs, 0 when there is none
LastUser(msgs) ==
    LET at == {i \in 1..Len(msgs) : msgs[i].role = "user"}
    IN  IF at = {} THEN 0 ELSE CHOOSE i \in at : \A j \in at : j <= i

\* msgs from position p on is a sequence of rounds: an assistant message with
\* tool-call requests directly followed by the tool messages answering them
RECURSIVE CompleteRounds(_, _)
CompleteRounds(msgs, p) ==
    \/ p > Len(msgs)
    \/ /\ IsRequesting(msgs[p])
       /\ AnsweredInOrder(msgs, p)
       /\ CompleteRounds(msgs, p + Len(msgs[p].tool_calls) + 1)

\* C29: every model request carries the conversation as it is at that moment,
\* whole and in order: it holds the user message of the turn followed by the
\* finished rounds of the turn, each an assistant message and the tool
\* messages answering it; the first request of a turn ends with the user
\* message, and a later one is the request before it extended by the
\* assistant message of the round since and all its tool messages.
C29_RequestCarriesWholeConversation ==
    [][requests' # requests =>
          LET req == sent'.messages
              u == LastUser(req)
              n == Len(sent.messages)
          IN  /\ req = messages
              /\ u > 0
              /\ CompleteRounds(req, u + 1)
              /\ Last(messages).role = "user" => u = Len(req)
              /\ Last(messages).role # "user" =>
                    /\ n < Len(req)
                    /\ SubSeq(req, 1, n) = sent.messages
                    /\ LastUser(sent.messages) = u
                    /\ IsRequesting(req[n + 1])
                    /\ n + 1 + Len(req[n + 1].tool_calls) = Len(req)]_vars

\* the third request of a turn was sent: it holds the user message, two
\* assistant messages with tool calls and the tool messages answering them
C29_Witness ==
    /\ requests >= 3
    /\ pc = "check"
    /\ LastUser(sent.messages) = 2
    /\ Len(sent.messages) >= 7
    /\ Len(SelectSeq(sent.messages, LAMBDA m : m.role = "assistant")) = 2
    /\ Len(SelectSeq(sent.messages, LAMBDA m : m.role = "tool")) >= 3
    /\ Last(sent.messages).role = "tool"

\* C35: the tools list of every model request has at most one entry per tool
\* name, whatever connections are ready and whether or not the local executor
\* is enabled.
C35_OneEntryPerToolName ==
    \A i, j \in 1..Len(sent.tools) :
        i # j => sent.tools[i].function.name # sent.tools[j].function.name

\* the turn of process_message has ended
TurnEnded == pc \in {"done", "aborted", "escaped"}

\* C37: given the same user message, the same model responses and the same
\* tool results, process_message and chat() with a tool executor leave the
\* same conversation; and chat() without a tool executor makes one model
\* request and returns, with the user message and the first assistant message
\* appended, tool calls or not.
C37_TurnLoopsAgree ==
    /\ chat.given /\ TurnEnded => messages = chat.executor.messages
    /\ chat.given =>
          /\ chat.bare.requests = 1
          /\ chat.bare.ended = "returned"
          /\ Len(chat.bare.messages) >= 2
          /\ chat.bare.messages[Len(chat.bare.messages) - 1] = UserMessage("hi")
          /\ Last(chat.bare.messages) = AssistantMsgOf(chat.script[1].stream)

----------------------------------------------------------------------------
(* Connection manager properties                                            *)

\* the connect_server calls made by connect_all_servers, in order
LoopAttempts(log) == SelectSeq(log, LAMBDA a : a.via = "connect_all_servers")

Succeeded(log) == {log[i].name : i \in {k \in 1..Len(log) : log[k].outcome = "ok"}}

\* C7: connect_all_servers calls connect_server once for every configured
\* server, in order; a failure of one never ends the call, and the call
\* returns the connections of exactly the servers whose connect succeeded.
C7_ConnectAllIsolatesFailures ==
    [][/\ ca.pc = "loop" /\ ca' # ca =>
             /\ ca'.pc \in {"loop", "returned"}
             /\ Len(attempts') = Len(attempts) + 1
             /\ Last(attempts').name = servers[ca.i]
             /\ Last(attempts').outcome = "ok" => Has(connections', servers[ca.i])
       /\ ca.pc # "returned" /\ ca'.pc = "returned" =>
             /\ [i \in 1..Len(LoopAttempts(attempts')) |->
                    LoopAttempts(attempts')[i].name] = servers
             /\ ca'.ret = Succeeded(attempts')
             /\ ca'.ret = Keys(connections')]_vars

\* the stored connections whose catalog has a tool of that name
Exporters(name) ==
    {i \in 1..Len(connections) :
        \E k \in 1..Len(connections[i].val.tools) :
            connections[i].val.tools[k].name = name}

\* of these, the one that was connected last
LastConnected(S) ==
    CHOOSE i \in S : \A j \in S : connections[j].val.session <= connections[i].val.session

\* C8: when two stored connections export the called name, call_tool forwards
\* the call to the one that was connected last.
C8_LastRegisteredWins ==
    [][last_call' # last_call /\ Cardinality(Exporters(last_call'.name)) >= 2 =>
          /\ ~last_call'.result.raised
          /\ last_call'.result.session =
                connections[LastConnected(Exporters(last_call'.name))].val.session]_vars

\* C9: get_openai_tools changes neither the connection set nor the routing
\* table, and a call that follows another with no connect in between returns
\* the same list.
C9_MergedCatalogIsPureRead ==
    [][last_tools'.fresh /\ last_tools' # last_tools =>
          /\ UNCHANGED <<connections, tool_to_server>>
          /\ last_tools.fresh => last_tools'.ret = last_tools.ret]_vars

\* get_openai_tools was called twice in a row on two or more descriptors
C9_Witness ==
    /\ last_tools.fresh
    /\ last_tools.again
    /\ Len(last_tools.ret) >= 2
    /\ last_tools.ret = OpenAITools

RECURSIVE Reverse(_)
Reverse(q) == IF q = <<>> THEN <<>> ELSE Append(Reverse(Tail(q)), Head(q))

\* every transport and session acquired by a connect_server call, oldest first
AcquiredSoFar ==
    Flatten([i \in 1..Len(attempts) |->
                Acquired(attempts[i].outcome, attempts[i].session)])

\* C10: when the scope ends the acquired transports and sessions are closed
\* in reverse order of acquisition, and a close that fails does not keep the
\* earlier ones from being closed.
C10_ClosedInReverseOrder ==
    /\ mpc \in {"new", "open"} => closed = <<>>
    /\ mpc \in {"exiting", "closed"} =>
          [i \in 1..Len(closed) |-> closed[i].res] =
              SubSeq(Reverse(AcquiredSoFar), 1, Len(closed))
    /\ mpc = "closed" => Len(closed) = Len(AcquiredSoFar)

\* the close of the newest resource failed and all four were still closed
C10_Witness ==
    /\ mpc = "closed"
    /\ Len(closed) = 4
    /\ ~closed[1].ok
    /\ closed[4].ok
    /\ closed[4].res = Resource("transport", 1)

\* the connect_server calls that spawned a provider process
Spawned == {i \in 1..Len(attempts) : attempts[i].outcome \notin {"no_context", "spawn_failed"}}

\* the close of the transport of attempt i has been made
TransportClosed(i) ==
    \E k \in 1..Len(closed) : closed[k].res = Resource("transport", attempts[i].session)

\* C32: once the scope of the manager ends, its exit runs to the end, and at
\* that end the close of every transport spawned under the scope has been
\* made, stored connection or not, and nothing is left on the exit stack;
\* before the scope ends no transport is closed.
C32_SpawnedTransportsClosed ==
    /\ (mpc = "exiting") ~> (mpc = "closed")
    /\ [](mpc = "closed" =>
             /\ exit_stack = <<>>
             /\ \A i \in Spawned : TransportClosed(i))
    /\ [](mpc \in {"new", "open"} => \A i \in Spawned : ~TransportClosed(i))

\* the scope has ended after a connect that was stored and one whose
\* handshake failed: the transports of both are closed
C32_Witness ==
    /\ mpc = "closed"
    /\ \E i, j \in Spawned :
          /\ attempts[i].outcome = "handshake_failed"
          /\ attempts[j].outcome = "ok"
          /\ attempts[i].name \notin Keys(connections)
          /\ TransportClosed(i) /\ TransportClosed(j)

\* C33: call_tool with a name that is a key of the routing table is forwarded
\* to the session of a stored connection, whatever connects came before: its
\* result is neither the "not found" text nor the "not connected" text.
C33_RoutedNameIsForwarded ==
    [][last_call' # last_call /\ Has(tool_to_server, last_call'.name) =>
          LET result == last_call'.result
              server == Lookup(tool_to_server, last_call'.name)
          IN  /\ ~result.raised
              /\ result.text # "Error: Tool '" \o last_call'.name \o "' not found"
              /\ result.text # "Error: Server '" \o server \o "' not connected"
              /\ \E i \in 1..Len(connections) :
                    result.session = connections[i].val.session]_vars

\* C34: after any connects, a second one under a stored name included, every
\* entry of the routing table names a stored connection whose catalog has a
\* tool of the entry's name, and every tool of a stored connection's catalog
\* is a key of the routing table.
C34_RoutingTableMatchesCatalogs ==
    /\ \A e \in 1..Len(tool_to_server) :
          /\ Has(connections, tool_to_server[e].val)
          /\ \E k \in 1..Len(Lookup(connections, tool_to_server[e].val).tools) :
                Lookup(connections, tool_to_server[e].val).tools[k].name =
                    tool_to_server[e].key
    /\ \A i \in 1..Len(connections) :
          \A k \in 1..Len(connections[i].val.tools) :
              Has(tool_to_server, connections[i].val.tools[k].name)

\* C17: no step of the manager takes a tool name out of the routing table: a
\* connect that succeeds adds names or overwrites their server, and a connect
\* that fails, a tool invocation and a catalog read leave the table as it was.
C17_RoutingTableNeverLosesNames ==
    [][/\ Keys(tool_to_server) \subseteq Keys(tool_to_server')
       /\ tool_to_server' # tool_to_server =>
             /\ Len(attempts') = Len(attempts) + 1
             /\ Last(attempts').outcome = "ok"
             /\ \A n \in Keys(tool_to_server') :
                   \/ Lookup(tool_to_server', n) = Last(attempts').name
                   \/ Has(tool_to_server, n)
                      /\ Lookup(tool_to_server', n) = Lookup(tool_to_server, n)]_vars

\* two names were registered, then a connect failed and an invocation failed,
\* and both names are still routed
C17_Witness ==
    /\ Keys(tool_to_server) = {"u", "t"}
    /\ \E i, j \in 1..Len(attempts) :
          /\ i < j
          /\ attempts[i].outcome = "ok"
          /\ attempts[j].outcome # "ok"
          /\ attempts[j].name = attempts[i].name
    /\ last_call.called /\ ~last_call.reply.ok /\ last_call.result.session # 0

\* C18: the connection set and the routing table change only in a
\* connect_server call whose handshake and catalog retrieval succeeded, which
\* stores the connection with its catalog and routes each of its tools to it;
\* a connect_server call that fails leaves the connection set, the routing
\* table and the merged catalog as they were.
C18_StoredOnlyWhenReady ==
    [][/\ <<connections, tool_to_server>>' # <<connections, tool_to_server>> =>
             /\ Len(attempts') = Len(attempts) + 1
             /\ Last(attempts').outcome = "ok"
       /\ Len(attempts') = Len(attempts) + 1 =>
             LET a == Last(attempts')
             IN  IF a.outcome = "ok"
                 THEN /\ Has(connections', a.name)
                      /\ Lookup(connections', a.name).session = a.session
                      /\ \A k \in 1..Len(Lookup(connections', a.name).tools) :
                            Lookup(tool_to_server',
                                   Lookup(connections', a.name).tools[k].name) = a.name
                 ELSE /\ UNCHANGED <<connections, tool_to_server>>
                      /\ Flatten([i \in 1..Len(connections') |->
                                     connections'[i].val.tools]) = AllTools]_vars

\* a server that is connected was connected again, the second attempt failed
\* at the handshake or at the catalog retrieval, and the stored connection is
\* still the first one
C18_Witness ==
    \E i, j \in 1..Len(attempts) :
        /\ i < j
        /\ attempts[i].outcome = "ok"
        /\ attempts[j].outcome \in {"handshake_failed", "list_tools_failed"}
        /\ attempts[j].name = attempts[i].name
        /\ Has(connections, attempts[i].name)
        /\ Lookup(connections, attempts[i].name).session = attempts[i].session
        /\ Len(AllTools) >= 1

\* what the parts contribute, the payload of every part put aside
Contributions(parts) ==
    [i \in 1..Len(parts) |->
        CASE parts[i].type = "text" -> parts[i].text
          [] parts[i].type = "data" -> "[Binary data: " \o parts[i].mimeType \o "]"]

\* the first k texts, a newline between every two neighbours
RECURSIVE NewlineSeparated(_, _)
NewlineSeparated(texts, k) ==
    IF k = 0 THEN ""
    ELSE IF k = 1 THEN texts[1]
    ELSE NewlineSeparated(texts, k - 1) \o "\n" \o texts[k]

RECURSIVE Offset(_)
Offset(i) == IF i = 1 THEN 0 ELSE Offset(i - 1) + Len(connections[i - 1].val.tools)

\* the entry is the provider-schema form of the tool descriptor: type and
\* function, the function with name, description and parameters and no more
ExportOf(entry, tool) ==
    /\ DOMAIN entry = {"type", "function"}
    /\ entry.type = "function"
    /\ DOMAIN entry.function = {"name", "description", "parameters"}
    /\ entry.function.name = tool.name
    /\ entry.function.description = (IF tool.description = None THEN "" ELSE tool.description)
    /\ tool.inputSchema = None => entry.function.parameters = EmptyObjectSchema
    /\ tool.inputSchema \notin {None, "{}"} =>
          entry.function.parameters = tool.inputSchema

\* the list has one entry per tool descriptor of each stored connection, in
\* connection order then catalog order, and nothing else
MergedExport(list) ==
    /\ Len(list) = Offset(Len(connections) + 1)
    /\ \A i \in 1..Len(connections) :
          \A k \in 1..Len(connections[i].val.tools) :
              ExportOf(list[Offset(i) + k], connections[i].val.tools[k])

\* C20: get_openai_tools returns one entry {type, function: {name,
\* description, parameters}} per tool descriptor of each stored connection, in
\* connection order then catalog order, a missing description exported as ""
\* and a missing schema as the empty object schema; the list of a turn is that
\* list when the session has a manager, followed by the run_command descriptor
\* of the same form exactly when the local executor is enabled.
C20_ToolsInProviderSchemaForm ==
    /\ last_tools.fresh => MergedExport(last_tools.ret)
    /\ pc = "request" =>
          LET n == IF session.mcp_manager THEN Offset(Len(connections) + 1) ELSE 0
          IN  /\ session.mcp_manager => MergedExport(SubSeq(tools, 1, n))
              /\ Len(tools) = n + (IF session.sandbox_enabled THEN 1 ELSE 0)
              /\ session.sandbox_enabled =>
                    /\ DOMAIN Last(tools) = {"type", "function"}
                    /\ Last(tools).type = "function"
                    /\ DOMAIN Last(tools).function = {"name", "description", "parameters"}
                    /\ Last(tools).function.name = SANDBOX_TOOL_NAME
                    /\ Last(tools) = SandboxTool

\* get_openai_tools returned the descriptors of two connections, one of them
\* without description and schema, and a turn of a session with the local
\* executor sends these descriptors and the run_command descriptor
C20_Witness ==
    /\ last_tools.fresh
    /\ Len(connections) = 2
    /\ Len(last_tools.ret) = 3
    /\ connections[1].val.tools[1].description = None
    /\ last_tools.ret[1].function.description = ""
    /\ last_tools.ret[1].function.parameters = EmptyObjectSchema
    /\ last_tools.ret[2].function.name = "u"
    /\ pc = "request"
    /\ session.mcp_manager /\ session.sandbox_enabled
    /\ Len(tools) = 4
    /\ Last(tools).function.name = SANDBOX_TOOL_NAME

\* the connect_server calls that created the connection of that session
AttemptsOf(log, sess) == {k \in 1..Len(log) : log[k].session = sess}

\* the connection was initialized once, and the handshake and the catalog
\* retrieval succeeded
InitializedOnce(log, conn) ==
    /\ Cardinality(AttemptsOf(log, conn.session)) = 1
    /\ \A k \in AttemptsOf(log, conn.session) :
          log[k].outcome = "ok" /\ log[k].name = conn.name

\* C26: every connection the manager stores was initialized exactly once and
\* with success, and a tool call is forwarded only to a connection that the
\* manager stores at that moment, hence to an initialized one.
C26_InitializedBeforeInvoke ==
    [][/\ \A i \in 1..Len(connections') :
             InitializedOnce(attempts', connections'[i].val)
       /\ last_call' # last_call /\ last_call'.result.session # 0 =>
             \E i \in 1..Len(connections) :
                 /\ connections[i].val.session = last_call'.result.session
                 /\ InitializedOnce(attempts, connections[i].val)]_vars

\* a call was forwarded to the connection of a server whose first connect
\* had failed at the handshake
C26_Witness ==
    /\ last_call.called /\ last_call.result.session # 0
    /\ \E j, k \in 1..Len(attempts) :
          /\ j < k
          /\ attempts[j].name = attempts[k].name
          /\ attempts[j].outcome = "handshake_failed"
          /\ attempts[k].outcome = "ok"
          /\ attempts[k].session = last_call.result.session

----------------------------------------------------------------------------
(* Local executor properties                                                *)

\* the standard output and the standard error of a run as one text, in the
\* layouts that put the output first and a line break or a blank line between
CombinedTexts(run) ==
    IF run.out = "" /\ run.err = "" THEN {""}
    ELSE IF run.err = "" THEN {run.out}
    ELSE IF run.out = "" THEN {run.err, "\n" \o run.err}
    ELSE {run.out \o "\n" \o run.err, run.out \o "\n\n" \o run.err}

\* C21: the result of a command that ran to completion is its combined
\* standard output and standard error, after a first line "exit code N" exactly
\* when the exit code N is not zero, and "(no output)" when the command exited
\* with zero and wrote nothing.
C21_CompletedCommandResult ==
    [][pc = "executing" /\ last_exec'.run.kind = "exit" =>
          LET run == last_exec'.run
              text == last_exec'.text
          IN  /\ ~last_exec'.raised
              /\ IF run.code # 0
                 THEN \/ run.out = "" /\ run.err = ""
                         /\ text = "exit code " \o ToString(run.code)
                      \/ \E c \in CombinedTexts(run) \ {""} :
                            text = "exit code " \o ToString(run.code) \o "\n" \o c
                 ELSE IF run.out = "" /\ run.err = ""
                 THEN text = "(no output)"
                 ELSE text \in CombinedTexts(run)]_vars

\* the timeout the arguments of the call carry, or the default
SuppliedTimeout(text) ==
    LET args == DecodeArguments(text)
    IN  IF args.t = "dict" /\ Has(args.items, "timeout")
        THEN Lookup(args.items, "timeout").v
        ELSE ToString(DEFAULT_TIMEOUT)

\* C22: a command of the local executor that is still running when its timeout
\* expires is given up and answered with the timeout error text, so that the
\* turn goes on; the timeout is the one the arguments of the call carry, and
\* 30 when they carry none.
C22_TimeoutIsAnsweredWithText ==
    [][pc = "executing" /\ last_exec'.run.kind = "timeout" =>
          /\ ~last_exec'.hangs /\ ~last_exec'.raised
          /\ pc' \in {"executing", "request"}
          /\ last_exec'.text = "Error: command timed out after "
                                  \o SuppliedTimeout(tool_calls[ti].arguments) \o " seconds"
          /\ messages' = Append(messages,
                                ToolResultMessage(tool_calls[ti].id, last_exec'.text))]_vars

====
